---- MODULE Spec2Model ----
(***************************************************************************)
(* Client and server coordination layer of the voice-agent avatar          *)
(* application: the packet reducer of App (chat history reconciliation,    *)
(* audio routing between the avatar bridge and the local player,           *)
(* cancellation), the avatar session lifecycle (startHeygenSession,        *)
(* openConnection, stopChatting) and the microphone capture of Chat        *)
(* (startRecording, stopRecording and the send timer).                     *)
(***************************************************************************)
EXTENDS Integers, Sequences, FiniteSets, TLC

\* ------------------------------------------------------------------ bounds
MaxPackets == 3      \* TEXT / INTERACTION_END packets handled in one run
MaxChunks == 1       \* AUDIO chunks queued or in flight at one time
MaxSessions == 1     \* LiveAvatarSession objects alive or referenced at one time
MaxSockets == 1      \* WebSocket objects open or referenced at one time
MaxStarts == 2       \* startRecording calls in flight or with resources left at one time
MaxBatches == 2      \* sample batches the capture worklets post in one run
MaxClock == 2        \* the latest reading of Date.now()
MaxServerSessions == 1   \* session ids the server is asked about
MaxCreates == 2      \* InworldGraphWrapper.create calls in one run
MaxSamples == 2      \* samples in one PCM buffer

\* ------------------------------------------------------------- value sets
InteractionIds == {"T1", "T2"}
UtteranceIds == {"u1", "u2"}
NoSession == 0
NoConnection == 0
SessionIds == 1..MaxSessions
ConnIds == 1..MaxSockets
ChunkIds == 1..MaxChunks
StartIds == 1..MaxStarts
BatchIds == 1..MaxBatches
ServerSessionIds == 1..MaxServerSessions
RegistryIds == 1..(MaxServerSessions + 1)
VoiceIds == {"v1", "v2"}
Caches == {"text", "audio"}
NoKey == ""

\* Strings are sequences of one-character strings.
EmptyText == << >>
RawTexts == {EmptyText, <<"h", "i">>}

\* texts as the speech recogniser and the agent produce them: nothing, white space
\* only, a partial and its completion, one with white space around it that ends in
\* sentence punctuation
Blank == <<" ">>
Hello == <<"h", "e", "l", "l", "o">>
HelloThere == <<"h", "e", "l", "l", "o", " ", "t", "h", "e", "r", "e">>
Padded == <<" ", "h", "i", "!", " ">>
UserTexts == {EmptyText, Blank, Hello, HelloThere, Padded}
AgentTexts == {EmptyText, Blank, Padded}

VARIABLES
  \* --- App: chat history reducer
  chatHistory,        \* useState<ChatHistoryItem[]>
  markerSeq,          \* number of v4() ids drawn for INTERACTION_END items
  nPackets,           \* TEXT / INTERACTION_END packets handled so far
  last,               \* the packet onMessage handled last and what the handler did
  finalSeen,          \* pairs (interactionId, isAgent) for which a final TEXT was handled
  finalKept,          \* per pair: final TEXT packets that produced a chat item (0, 1, 2 = many)
  partialKept,        \* per pair: non-final TEXT packets that produced a chat item (0, 1, 2 = many)
  \* --- App: avatar adapter state (React state) and its render snapshot
  chatting, open, agent, connection,
  heygenSession, isHeygenConnected, isHeygenStreamReady, heygenSessionToken,
  stateRef,           \* stateRef.current, assigned on every render of App
  key,                \* module-level session key
  \* --- collaborators
  queue,              \* Player: local playback queue (chunk ids)
  bridge,             \* per LiveAvatarSession: SDK state and whether listeners are attached
  ws,                 \* per WebSocket: readyState and whether onOpen / onMessage are attached
  \* --- in-flight asynchronous calls
  forwards,           \* AUDIO handlers suspended on repeatAudio: [chunk, session, interactionId]
  ocPc, ocHeygen,     \* openConnection: position, shouldStartHeygen
  tokenFailed,        \* the last token request of the running conversation failed
  avatarFailed,       \* an avatar call or event of the running conversation failed
  stPc, stLocals,     \* stopChatting: position, values read from stateRef at entry
  \* --- App: latency tracker
  latencyData,        \* useState<InteractionLatency[]>
  now,                \* Date.now()
  \* --- Chat: microphone capture
  isRecording,        \* useState(false) of the mounted Chat
  chatRef,            \* the committed render of Chat: what its callbacks and effects closed over
  rec,                \* per startRecording call: position, captured connection, what it created
  interval, stream, audioWorkletNode,  \* module-level handles of Chat.tsx (0: undefined,
                      \* or the handle of something already released)
  leftChannel,        \* per startRecording call: the sample batches its closure buffers
  nBatches,           \* sample batches posted so far
  uplink,             \* per sample batch: the "audio" messages that carried it (2 = many)
  \* --- Chat: avatar video element
  heygenApiKey,       \* useState<string>() of App: set once the avatar is configured
  video,              \* the video element and attachedVideoRef as of the committed render
  \* --- server: InworldApp
  env,                \* this.env after initialize(): the server's own credentials
  connections,        \* this.connections: per session id its entry or NoEntry
  sessionTextGraphs,  \* per voice id: the cached text graph handle (0: none)
  sessionAudioGraphs, \* per voice id: the cached audio graph handle (0: none)
  graphCreates,       \* per cache and voice id: InworldGraphWrapper.create calls made
  graphKeys,          \* per cache and voice id: the apiKey the cached graph was created with
  graphCalls          \* getter calls suspended on InworldGraphWrapper.create

textVars == <<chatHistory, markerSeq, nPackets, finalSeen, finalKept, partialKept>>
stateVars == <<chatting, open, agent, connection, heygenSession, isHeygenConnected,
               isHeygenStreamReady, heygenSessionToken, key>>
appVars == <<stateVars, stateRef>>
envVars == <<queue, bridge, ws>>
audioVars == <<forwards>>
flowVars == <<ocPc, ocHeygen, tokenFailed, avatarFailed, stPc, stLocals>>
latVars == <<latencyData, now>>
bufVars == <<leftChannel, nBatches, uplink>>
viewVars == <<heygenApiKey, video>>
capVars == <<isRecording, chatRef, rec, interval, stream, audioWorkletNode, bufVars,
             viewVars>>
srvVars == <<env, connections, sessionTextGraphs, sessionAudioGraphs, graphCreates,
             graphKeys, graphCalls>>
clientVars == <<textVars, appVars, envVars, audioVars, flowVars, latVars, capVars>>
vars == <<clientVars, srvVars, last>>

\* ------------------------------------------------------------ text helpers
IsSpace(c) == c = " "

toUpperCase(c) ==
  CASE c = "h" -> "H"
    [] c = "e" -> "E"
    [] c = "i" -> "I"
    [] c = "o" -> "O"
    [] OTHER -> c

RECURSIVE TrimStart(_)
TrimStart(s) ==
  IF s = << >> THEN s
  ELSE IF IsSpace(Head(s)) THEN TrimStart(Tail(s)) ELSE s

RECURSIVE TrimEnd(_)
TrimEnd(s) ==
  IF s = << >> THEN s
  ELSE IF IsSpace(s[Len(s)]) THEN TrimEnd(SubSeq(s, 1, Len(s) - 1)) ELSE s

\* String.prototype.trim
Trim(s) == TrimEnd(TrimStart(s))

\* /[.!?]/.test(lastChar)
EndsWithPunctuation(c) == c \in {".", "!", "?"}

\* formatAudioTranscript with the full stop appended to every final transcript
formatAudioTranscript_AlwaysStop(text, isFinal) ==
  IF Len(Trim(text)) = 0 THEN text
  ELSE LET trimmed == Trim(text)
           formatted == <<toUpperCase(Head(trimmed))>> \o Tail(trimmed)
       IN IF isFinal THEN Append(formatted, ".") ELSE formatted

formatAudioTranscript(text, isFinal) ==
  IF Len(Trim(text)) = 0 THEN text
  ELSE LET trimmed == Trim(text)
           formatted == <<toUpperCase(Head(trimmed))>> \o Tail(trimmed)
       IN IF isFinal /\ ~EndsWithPunctuation(formatted[Len(formatted)])
          THEN Append(formatted, ".")
          ELSE formatted

\* ------------------------------------------------------ chat history items
ACTOR == "ACTOR"
INTERACTION_END == "INTERACTION_END"

\* v4(): the n-th fresh identifier
MarkerIdPool == <<"m1", "m2", "m3", "m4", "m5", "m6", "m7", "m8">>
v4(n) == MarkerIdPool[n]

TextPackets ==
  [interactionId : InteractionIds, utteranceId : UtteranceIds,
   isAgent : BOOLEAN, text : RawTexts, final : BOOLEAN]

\* Array.prototype.findIndex, 1-based; 0 when nothing matches (-1 in the source)
\* given the set of indices that satisfy the test
FindIndex(matching) ==
  IF matching = {} THEN 0 ELSE CHOOSE i \in matching : \A j \in matching : i <= j

\* the test of both findIndex calls that look for a still-recognizing item
IsPartialOf(item, chatItem) ==
  /\ item.type = ACTOR
  /\ item.interactionId = chatItem.interactionId
  /\ item.isRecognizing = TRUE
  /\ item.isAgent = chatItem.isAgent

PartialIndex(currentState, chatItem) ==
  FindIndex({i \in 1..Len(currentState) : IsPartialOf(currentState[i], chatItem)})

IdIndex(currentState, chatItem) ==
  FindIndex({i \in 1..Len(currentState) : currentState[i].id = chatItem.id})

\* HistoryIndex with the lookup of the still-recognizing item left out for partials
HistoryIndex_NoPartialLookup(currentState, chatItem) ==
  IF chatItem.type = ACTOR /\ chatItem.isRecognizing
  THEN 0
  ELSE IF chatItem.type = ACTOR /\ ~chatItem.isRecognizing
       THEN IF PartialIndex(currentState, chatItem) > 0
            THEN PartialIndex(currentState, chatItem)
            ELSE IdIndex(currentState, chatItem)
       ELSE IdIndex(currentState, chatItem)

\* HistoryIndex with a final item looked up by its id only
HistoryIndex_FinalById(currentState, chatItem) ==
  IF chatItem.type = ACTOR /\ chatItem.isRecognizing
  THEN PartialIndex(currentState, chatItem)
  ELSE IdIndex(currentState, chatItem)

\* the index the reducer of setChatHistory settles on
HistoryIndex(currentState, chatItem) ==
  IF chatItem.type = ACTOR /\ chatItem.isRecognizing
  THEN PartialIndex(currentState, chatItem)
  ELSE IF chatItem.type = ACTOR /\ ~chatItem.isRecognizing
       THEN IF PartialIndex(currentState, chatItem) > 0
            THEN PartialIndex(currentState, chatItem)
            ELSE IdIndex(currentState, chatItem)
       ELSE IdIndex(currentState, chatItem)

\* the updater passed to setChatHistory
ReduceHistory(currentState, chatItem) ==
  LET currentHistoryIndex == HistoryIndex(currentState, chatItem)
  IN IF currentHistoryIndex > 0
     THEN [currentState EXCEPT ![currentHistoryIndex] = chatItem]
     ELSE Append(currentState, chatItem)

\* the chat item the TEXT branch builds
TextChatItem(p) ==
  [id |-> p.utteranceId, type |-> ACTOR, interactionId |-> p.interactionId,
   isAgent |-> p.isAgent,
   text |-> IF p.isAgent THEN p.text ELSE formatAudioTranscript(p.text, p.final),
   isRecognizing |-> ~p.final]

\* TextKept with the test made on the text as received
TextKept_Untrimmed(p) == Len(p.text) > 0 \/ p.isAgent = TRUE

\* the condition under which the TEXT branch builds a chat item
TextKept(p) == Len(Trim(p.text)) > 0 \/ p.isAgent = TRUE

\* the chat item the INTERACTION_END branch builds
EndChatItem(interactionId, n) ==
  [id |-> v4(n), type |-> INTERACTION_END, interactionId |-> interactionId,
   isAgent |-> FALSE, text |-> EmptyText, isRecognizing |-> FALSE]

\* ------------------------------------------------------------ latency data
Undefined == << >>
VoiceInput == <<"V", "o", "i", "c", "e", " ", "i", "n", "p", "u", "t">>

HasLatency(data, interactionId) ==
  \E i \in 1..Len(data) : data[i].interactionId = interactionId

\* the updater of the TEXT branch: fills userText where it is still empty
LatencyUserText(prev, p) ==
  [i \in 1..Len(prev) |->
     IF prev[i].interactionId = p.interactionId /\ prev[i].userText = EmptyText
     THEN [prev[i] EXCEPT !.userText = formatAudioTranscript(Trim(p.text), TRUE)]
     ELSE prev[i]]

\* Elapsed with the operands exchanged
Elapsed_Exchanged(startTimestamp, firstAudioTimestamp) ==
  startTimestamp - firstAudioTimestamp

\* latencyMs = firstAudioTimestamp - startTimestamp
Elapsed(startTimestamp, firstAudioTimestamp) == firstAudioTimestamp - startTimestamp

\* LatencyFirstAudio without the !existing.firstAudioTimestamp test
LatencyFirstAudio_EveryChunk(prev, interactionId, t) ==
  [i \in 1..Len(prev) |->
     IF prev[i].interactionId = interactionId
     THEN LET startTimestamp == IF prev[i].speechCompleteTimestamp # 0
                                THEN prev[i].speechCompleteTimestamp
                                ELSE prev[i].userTextTimestamp
          IN [prev[i] EXCEPT !.firstAudioTimestamp = t,
                             !.latencyMs = IF startTimestamp # 0
                                           THEN <<Elapsed(startTimestamp, t)>>
                                           ELSE Undefined]
     ELSE prev[i]]

\* the updater of the AUDIO branch: first audio timestamp and derived latency
LatencyFirstAudio(prev, interactionId, t) ==
  [i \in 1..Len(prev) |->
     IF /\ prev[i].interactionId = interactionId
        /\ \E j \in 1..Len(prev) :
             /\ prev[j].interactionId = interactionId
             /\ \A k \in 1..(j - 1) : prev[k].interactionId # interactionId
             /\ prev[j].firstAudioTimestamp = 0
     THEN LET existing == prev[CHOOSE j \in 1..Len(prev) :
                                 /\ prev[j].interactionId = interactionId
                                 /\ \A k \in 1..(j - 1) :
                                      prev[k].interactionId # interactionId]
              startTimestamp == IF existing.speechCompleteTimestamp # 0
                                THEN existing.speechCompleteTimestamp
                                ELSE existing.userTextTimestamp
          IN [prev[i] EXCEPT !.firstAudioTimestamp = t,
                             !.latencyMs = IF startTimestamp # 0
                                           THEN <<Elapsed(startTimestamp, t)>>
                                           ELSE Undefined]
     ELSE prev[i]]

\* a new InteractionLatency item; 0 stands for a timestamp that is not set
LatencyItem(interactionId) ==
  [interactionId |-> interactionId, userText |-> EmptyText,
   userTextTimestamp |-> 0, speechCompleteTimestamp |-> 0,
   firstAudioTimestamp |-> 0, latencyMs |-> Undefined]

\* LatencyNewInteraction without the lookup of an existing item
LatencyNewInteraction_NoLookup(prev, interactionId, t) ==
  Append(prev, [LatencyItem(interactionId) EXCEPT !.userTextTimestamp = t])

\* the updater of the NEW_INTERACTION branch: creates the item unless one exists
LatencyNewInteraction(prev, interactionId, t) ==
  IF HasLatency(prev, interactionId) THEN prev
  ELSE Append(prev, [LatencyItem(interactionId) EXCEPT !.userTextTimestamp = t])

\* the updater of the USER_SPEECH_COMPLETE branch: creates the item or sets its
\* speechCompleteTimestamp
LatencySpeechComplete(prev, interactionId, t) ==
  IF ~HasLatency(prev, interactionId)
  THEN Append(prev, [LatencyItem(interactionId) EXCEPT !.speechCompleteTimestamp = t,
                                                       !.userText = VoiceInput])
  ELSE [i \in 1..Len(prev) |->
          IF prev[i].interactionId = interactionId
          THEN [prev[i] EXCEPT !.speechCompleteTimestamp = t]
          ELSE prev[i]]

\* ------------------------------------------------------------ observation
Pairs == InteractionIds \X BOOLEAN

NoLast ==
  [type |-> "none", interactionId |-> "", isAgent |-> FALSE, final |-> FALSE,
   kept |-> FALSE, chunk |-> 0, playerStopped |-> FALSE, interrupts |-> 0,
   interruptThrew |-> FALSE, queueWas |-> 0, readyWas |-> FALSE,
   connectedWas |-> FALSE, sessionWas |-> NoSession, routed |-> "none",
   tokenFailedWas |-> FALSE, proceeded |-> FALSE, readyStateWas |-> "none",
   sent |-> FALSE, stops |-> 0, failed |-> FALSE, tokenWas |-> 0,
   status |-> 0, outcome |-> "none", session |-> 0,
   inworldKeyWas |-> NoKey, assemblyKeyWas |-> NoKey, sttWas |-> "",
   text |-> EmptyText, avatarFailedWas |-> FALSE,
   payloadWas |-> "none", samples |-> << >>, pcm |-> << >>,
   event |-> "none",
   graphKey |-> NoKey,
   toast |-> FALSE]

\* InworldApp before initialize(): this.env is not set
NoEnv == [initialized |-> FALSE, apiKey |-> NoKey, assemblyAIApiKey |-> NoKey,
          voiceId |-> "v1"]

\* this.connections[sessionId] is undefined
NoEntry == [loaded |-> FALSE, voiceId |-> "", inworldApiKey |-> NoKey,
            assemblyAiApiKey |-> NoKey, unloaded |-> FALSE, ws |-> FALSE]

\* ------------------------------------------------------------------- Init
\* a LiveAvatarSession that was never started or has disconnected: it emits nothing
DeadBridge == [state |-> "disconnected", listeners |-> FALSE]

\* a WebSocket that has closed: it dispatches no event any more
DeadSocket == [readyState |-> "closed", onMessage |-> FALSE]

Snapshot ==
  [chatting |-> chatting, connection |-> connection, heygenSession |-> heygenSession,
   isHeygenConnected |-> isHeygenConnected, heygenSessionToken |-> heygenSessionToken]

NoLocals == [connection |-> NoConnection, heygenSession |-> NoSession, token |-> 0]

\* Chat is not mounted (App renders ConfigView)
NoChat == [mounted |-> FALSE, isRecording |-> FALSE,
           connection |-> NoConnection, isLoaded |-> FALSE]

\* no video element is mounted: heygenVideoRef.current and attachedVideoRef.current
\* are null (ready, session: the dependencies of handleVideoRef and of the attach
\* effect in the committed render; attaches: attach calls made with the element)
NoVideo == [el |-> FALSE, attached |-> FALSE, ready |-> FALSE, session |-> NoSession,
            attaches |-> 0]

\* no startRecording call in flight in this slot and nothing it created is left
\* (caller: the Chat instance that made the call is still mounted)
IdleStart == [pc |-> "idle", connection |-> NoConnection, caller |-> FALSE,
              openAtStart |-> FALSE, stream |-> FALSE, node |-> FALSE, timer |-> FALSE]

Init ==
  /\ chatHistory = << >> /\ markerSeq = 0 /\ nPackets = 0
  /\ finalSeen = {} /\ finalKept = [pr \in Pairs |-> 0]
  /\ partialKept = [pr \in Pairs |-> 0]
  /\ last = NoLast
  /\ chatting = FALSE /\ open = FALSE /\ agent = FALSE
  /\ connection = NoConnection
  /\ heygenSession = NoSession
  /\ isHeygenConnected = FALSE /\ isHeygenStreamReady = FALSE
  /\ heygenSessionToken = 0
  /\ stateRef = [chatting |-> FALSE, connection |-> NoConnection,
                 heygenSession |-> NoSession, isHeygenConnected |-> FALSE,
                 heygenSessionToken |-> 0]
  /\ key = 0
  /\ queue = << >>
  /\ bridge = [s \in SessionIds |-> DeadBridge]
  /\ ws = [c \in ConnIds |-> DeadSocket]
  /\ forwards = {}
  /\ ocPc = "idle" /\ ocHeygen = FALSE /\ tokenFailed = FALSE /\ avatarFailed = FALSE
  /\ stPc = "idle" /\ stLocals = NoLocals
  /\ latencyData = << >> /\ now = 1
  /\ isRecording = FALSE /\ chatRef = NoChat
  /\ heygenApiKey = FALSE /\ video = NoVideo
  /\ rec = [i \in StartIds |-> IdleStart]
  /\ interval = 0 /\ stream = 0 /\ audioWorkletNode = 0
  /\ leftChannel = [i \in StartIds |-> << >>]
  /\ nBatches = 0
  /\ uplink = [b \in BatchIds |-> 0]
  /\ env = NoEnv
  /\ connections = [id \in RegistryIds |-> NoEntry]
  /\ sessionTextGraphs = [v \in VoiceIds |-> 0]
  /\ sessionAudioGraphs = [v \in VoiceIds |-> 0]
  /\ graphCreates = [c \in Caches |-> [v \in VoiceIds |-> 0]]
  /\ graphKeys = [c \in Caches |-> [v \in VoiceIds |-> NoKey]]
  /\ graphCalls = {}

\* ------------------------------------------- onMessage: TEXT, INTERACTION_END
Bump(n) == IF n < 2 THEN n + 1 ELSE 2

\* onMessage, packet.type === "TEXT"
OnText(p) ==
  /\ UNCHANGED <<capVars, srvVars>>
  /\ nPackets < MaxPackets
  /\ nPackets' = nPackets + 1
  /\ chatHistory' = IF TextKept(p)
                    THEN ReduceHistory(chatHistory, TextChatItem(p))
                    ELSE chatHistory
  /\ latencyData' = IF TextKept(p) /\ ~p.isAgent /\ p.final
                    THEN LatencyUserText(latencyData, p)
                    ELSE latencyData
  /\ finalSeen' = IF p.final
                  THEN finalSeen \cup {<<p.interactionId, p.isAgent>>}
                  ELSE finalSeen
  /\ finalKept' = IF p.final /\ TextKept(p)
                  THEN [finalKept EXCEPT ![<<p.interactionId, p.isAgent>>] = Bump(@)]
                  ELSE finalKept
  /\ partialKept' = IF ~p.final /\ TextKept(p)
                    THEN [partialKept EXCEPT ![<<p.interactionId, p.isAgent>>] = Bump(@)]
                    ELSE partialKept
  /\ last' = [NoLast EXCEPT !.type = "TEXT", !.interactionId = p.interactionId,
                            !.isAgent = p.isAgent, !.final = p.final,
                            !.kept = TextKept(p), !.text = p.text]
  /\ UNCHANGED <<markerSeq, now, appVars, envVars, audioVars, flowVars>>

\* onMessage, packet.type === "INTERACTION_END"
OnInteractionEnd(interactionId) ==
  /\ UNCHANGED <<capVars, srvVars>>
  /\ nPackets < MaxPackets
  /\ nPackets' = nPackets + 1
  /\ markerSeq' = markerSeq + 1
  /\ chatHistory' = ReduceHistory(chatHistory, EndChatItem(interactionId, markerSeq + 1))
  /\ last' = [NoLast EXCEPT !.type = "INTERACTION_END", !.interactionId = interactionId]
  /\ UNCHANGED <<finalSeen, finalKept, partialKept, latVars, appVars, envVars, audioVars, flowVars>>

NextText ==
  \/ \E p \in TextPackets : OnText(p)
  \/ \E t \in InteractionIds : OnInteractionEnd(t)

\* The packet reducer fed with TEXT and INTERACTION_END packets.
SpecText == Init /\ [][NextText]_vars

\* ------------------------------------------------------- claims C1 and C2
ItemsOf(pr) ==
  {i \in 1..Len(chatHistory) :
     /\ chatHistory[i].type = ACTOR
     /\ chatHistory[i].interactionId = pr[1]
     /\ chatHistory[i].isAgent = pr[2]}

FinalItemsOf(pr) == {i \in ItemsOf(pr) : ~chatHistory[i].isRecognizing}

LastIsFirstKeptFinal(pr) ==
  /\ last.type = "TEXT" /\ last.final /\ last.kept
  /\ last.interactionId = pr[1] /\ last.isAgent = pr[2]
  /\ finalKept[pr] = 1

\* C1 as stated: for every pair (interactionId, isAgent) the history holds at most
\* one item while only non-final TEXT packets of the pair have been handled, and
\* exactly one final item once a final TEXT packet of the pair has been handled
\* (read in the claim's favour: a final packet that produced a chat item).
C1_OneItemPerPair ==
  \A pr \in Pairs :
    /\ pr \notin finalSeen => Cardinality(ItemsOf(pr)) <= 1
    /\ finalKept[pr] >= 1 => Cardinality(FinalItemsOf(pr)) = 1

\* C1 amended: at most one item for the pair while only non-final packets of the
\* pair have been handled; and right after the first final packet of the pair that
\* yields a chat item (not an empty user text) the history holds exactly one item
\* for the pair and it is final, however many non-final packets preceded it.
C1_FirstFinalLeavesOne ==
  \A pr \in Pairs :
    /\ pr \notin finalSeen => Cardinality(ItemsOf(pr)) <= 1
    /\ LastIsFirstKeptFinal(pr) =>
         /\ Cardinality(ItemsOf(pr)) = 1
         /\ Cardinality(FinalItemsOf(pr)) = 1

\* two partials of one pair, then its final: one final item is left
C1_Witness ==
  \E pr \in Pairs :
    /\ LastIsFirstKeptFinal(pr)
    /\ partialKept[pr] = 2
    /\ Cardinality(FinalItemsOf(pr)) = 1

\* index of the first INTERACTION_END item of turn t, 0 if the turn has none
MarkerIndex(history, t) ==
  FindIndex({i \in 1..Len(history) :
               history[i].type = INTERACTION_END /\ history[i].interactionId = t})

\* C2 as stated: once INTERACTION_END(T) has been handled, a TEXT packet carrying T
\* leaves every history item up to T's boundary marker as it was (it can only
\* append after the marker).
C2_ClosedTurnNotReopened ==
  [][\A t \in InteractionIds :
       (/\ MarkerIndex(chatHistory, t) > 0
        /\ nPackets' = nPackets + 1
        /\ last'.type = "TEXT" /\ last'.interactionId = t)
       => SubSeq(chatHistory', 1, MarkerIndex(chatHistory, t))
            = SubSeq(chatHistory, 1, MarkerIndex(chatHistory, t))]_vars

\* ------------------------------------------------------ object identities
\* Objects are named by slots; a slot is taken again only when its object is dead
\* and nothing refers to it any more.
FreeSockets ==
  {c \in ConnIds : /\ ws[c] = DeadSocket
                   /\ connection # c /\ stateRef.connection # c
                   /\ stLocals.connection # c
                   /\ chatRef.connection # c
                   /\ \A i \in StartIds : rec[i].connection # c}

FreeSessions ==
  {s \in SessionIds : /\ bridge[s] = DeadBridge
                      /\ heygenSession # s /\ stateRef.heygenSession # s
                      /\ stLocals.heygenSession # s
                      /\ heygenSessionToken # s /\ stateRef.heygenSessionToken # s
                      /\ stLocals.token # s
                      /\ \A f \in forwards : f.session # s}

RECURSIVE InQueue(_, _)
InQueue(q, chunk) ==
  IF q = << >> THEN FALSE
  ELSE IF Head(q) = chunk THEN TRUE ELSE InQueue(Tail(q), chunk)

FreeChunks ==
  {k \in ChunkIds : /\ ~InQueue(queue, k)
                    /\ \A f \in forwards : f.chunk # k
                    /\ last.chunk # k}

Lowest(S) == CHOOSE x \in S : \A y \in S : x <= y

FreeStarts == {i \in StartIds : rec[i] = IdleStart}

\* ----------------------------------------------------------------- render
\* what a commit renders for Chat: App mounts Chat while chatting, with
\* isLoaded = open && !!agent; a newly mounted Chat starts with isRecording false
ChatSnapshot ==
  IF ~chatting THEN NoChat
  ELSE [mounted |-> TRUE,
        isRecording |-> isRecording,
        connection |-> connection,
        isLoaded |-> open /\ agent]

\* What a commit of Chat does with the video element. The element is rendered while
\* heygenApiKey is set. When the dependencies of handleVideoRef changed, React calls
\* the old callback with null (attachedVideoRef.current = null) and the new one with
\* the element; a new element gets the callback of the render. The attach effect runs
\* after the ref callbacks, on mount and when its dependencies changed. Both attach
\* the element if stream-ready and the session are set and the element is not the
\* one attachedVideoRef holds.
VideoCommit(v, wasMounted, mounted, el, ready, session) ==
  IF ~mounted THEN NoVideo
  ELSE LET changed == ~wasMounted \/ v.ready # ready \/ v.session # session
           refCalled == el /\ (changed \/ ~v.el)
           attached0 == IF refCalled \/ ~el \/ ~wasMounted THEN FALSE ELSE v.attached
           refAtt == refCalled /\ ready /\ session # NoSession /\ ~attached0
           attached1 == attached0 \/ refAtt
           effAtt == changed /\ ready /\ session # NoSession /\ el /\ ~attached1
           count0 == IF ~wasMounted \/ ~v.el THEN 0 ELSE v.attaches
           count1 == count0 + (IF refAtt THEN 1 ELSE 0) + (IF effAtt THEN 1 ELSE 0)
       IN [el |-> el, attached |-> attached1 \/ effAtt, ready |-> ready,
           session |-> session, attaches |-> IF count1 < 2 THEN count1 ELSE 2]

\* the video wiring a commit of the present state would leave
VideoSnapshot ==
  VideoCommit(video, chatRef.mounted, chatting, heygenApiKey, isHeygenStreamReady,
              heygenSession)

\* A commit: App's render assigns stateRef.current, Chat's callbacks and effects are
\* those of the new render. recNow and isRecordingNow are the capture state the
\* commit finds. Unmounting Chat discards its state; its unmount cleanup tests the
\* isRecording of its first render (false) and releases nothing.
Commit(recNow, isRecordingNow) ==
  /\ stateRef' = Snapshot'
  /\ isRecording' = (chatting' /\ isRecordingNow)
  /\ chatRef' = IF chatting'
                THEN [mounted |-> TRUE, isRecording |-> isRecordingNow,
                      connection |-> connection', isLoaded |-> open' /\ agent']
                ELSE NoChat
  /\ rec' = IF chatting' THEN recNow
            ELSE [i \in StartIds |-> [recNow[i] EXCEPT !.caller = FALSE]]
  /\ video' = VideoCommit(video, chatRef.mounted, chatting', heygenApiKey',
                          isHeygenStreamReady', heygenSession')

\* the commit scheduled by a state update made outside a React event handler (a
\* socket, bridge or promise callback): other callbacks can run before it
Render ==
  /\ stateRef # Snapshot \/ chatRef # ChatSnapshot \/ video # VideoSnapshot
  /\ UNCHANGED <<stateVars, heygenApiKey>>
  /\ Commit(rec, isRecording)
  /\ last' = NoLast
  /\ UNCHANGED <<interval, stream, audioWorkletNode, bufVars, srvVars,
                 textVars, envVars, audioVars, flowVars, latVars>>

\* ----------------------------------------------------- Chat: stopRecording
\* slot bookkeeping: a call that has returned keeps only what is still alive
Settle(r) ==
  IF r.pc # "idle" THEN r
  ELSE IF ~r.timer /\ ~r.stream /\ ~r.node THEN IdleStart
  ELSE [r EXCEPT !.caller = FALSE]

\* clearInterval(interval); stream?.getTracks().forEach(stop);
\* audioWorkletNode?.disconnect(): each acts on the object the module-level
\* variable names now
Released ==
  [i \in StartIds |->
     Settle([rec[i] EXCEPT !.timer = (@ /\ interval # i),
                           !.stream = (@ /\ stream # i),
                           !.node = (@ /\ audioWorkletNode # i)])]

\* the buffers after a release: the leftChannel of a call whose timer is cleared is
\* read by nothing any more
Reachable(recAfter) ==
  [i \in StartIds |-> IF recAfter[i].timer THEN leftChannel[i] ELSE << >>]

\* stopRecording called from a socket callback: setIsRecording(false), release
StopRecording ==
  /\ isRecording' = FALSE
  /\ rec' = Released
  /\ interval' = 0 /\ stream' = 0 /\ audioWorkletNode' = 0
  /\ leftChannel' = Reachable(Released)
  /\ UNCHANGED <<chatRef, viewVars, nBatches, uplink, srvVars>>

\* stopRecording: connection && connection.readyState === WebSocket.OPEN, the test
\* that guards the audioSessionEnd message; sockets: the sockets as they are then
SessionEndSent(c, sockets) == c # NoConnection /\ sockets[c].readyState = "open"

\* what a call of stopRecording leaves in `last`; stops counts the calls in a row
StopObs(type, sent) ==
  [NoLast EXCEPT !.type = type, !.sent = sent,
                 !.stops = IF last.stops < 2 THEN last.stops + 1 ELSE 2]

\* handleClose, the "close" / "error" listener the connection effect of Chat attached
\* to the connection of the committed render, calls stopRecording if that render's
\* isRecording was true
ClosesStop(c) == chatRef.mounted /\ chatRef.connection = c /\ chatRef.isRecording

\* the listener runs when the socket has left OPEN
HandleClose(c) ==
  IF ClosesStop(c)
  THEN /\ StopRecording
       /\ last' = StopObs("CLOSE", SessionEndSent(c, [ws EXCEPT ![c] = DeadSocket]))
  ELSE /\ UNCHANGED <<capVars, srvVars>>
       /\ last' = NoLast

\* ------------------------------------------------------------------ Player
\* Player.addToQueue
PlayerAddToQueue(q, chunk) == Append(q, chunk)

\* Player.stop
PlayerStop(q) == << >>

\* the player finishes the chunk at the head of the queue
PlayerPlayed ==
  /\ UNCHANGED <<capVars, srvVars>>
  /\ queue # << >>
  /\ queue' = Tail(queue)
  /\ last' = NoLast
  /\ UNCHANGED <<bridge, ws, textVars, appVars, audioVars, flowVars, latVars>>

\* ------------------------------------------------- onMessage: AUDIO, CANCEL
\* a message event is dispatched to onMessage of socket c
Delivers(c) == ws[c].readyState = "open" /\ ws[c].onMessage

\* the routing test of the AUDIO and CANCEL_RESPONSE branches, on stateRef.current
UseBridge(ref) == ref.isHeygenConnected /\ ref.heygenSession # NoSession

\* AfterForward with a catch block that only logs
AfterForward_DropOnFailure(ok) == IF ok THEN "bridge" ELSE "none"

\* where the chunk goes once repeatAudio has settled (try / catch of the AUDIO branch)
AfterForward(ok) == IF ok THEN "bridge" ELSE "local"

\* packet.audio.chunk: base64 of Float32 PCM, or of something that does not decode
\* to Float32 samples (no valid base64, or a byte count that is no multiple of 4)
Float32Pcm == "float32"
Int16Pcm == "int16"
Garbled == "garbled"
Payloads == {Float32Pcm, Garbled}

\* convertFloat32ToInt16PCM on the payload as a whole: its catch block returns the
\* argument
convertFloat32ToInt16PCM(base64Float32) ==
  IF base64Float32 = Float32Pcm THEN Int16Pcm ELSE base64Float32

\* AUDIO branch up to the first suspension: local enqueue, or the call of repeatAudio
\* with the converted payload
OnAudio(c, interactionId, audio) ==
  /\ UNCHANGED <<capVars, srvVars>>
  /\ Delivers(c)
  /\ FreeChunks # {}
  /\ LET chunk == Lowest(FreeChunks)
         obs == [NoLast EXCEPT !.type = "AUDIO", !.chunk = chunk,
                               !.interactionId = interactionId,
                               !.connectedWas = isHeygenConnected,
                               !.readyWas = isHeygenStreamReady,
                               !.sessionWas = heygenSession,
                               !.tokenFailedWas = tokenFailed,
                               !.avatarFailedWas = avatarFailed,
                               !.payloadWas = audio]
     IN IF UseBridge(stateRef)
        THEN /\ forwards' = forwards \cup
                  {[chunk |-> chunk, session |-> stateRef.heygenSession,
                    interactionId |-> interactionId,
                    audio |-> convertFloat32ToInt16PCM(audio)]}
             /\ last' = [obs EXCEPT !.routed = "bridge"]
             /\ UNCHANGED <<queue, latencyData>>
        ELSE /\ queue' = PlayerAddToQueue(queue, chunk)
             /\ latencyData' = LatencyFirstAudio(latencyData, interactionId, now)
             /\ last' = [obs EXCEPT !.routed = "local"]
             /\ UNCHANGED forwards
  /\ UNCHANGED <<bridge, ws, now, textVars, appVars, flowVars>>

\* AUDIO branch after await repeatAudio: resolved (ok) or rejected, then the latency update
OnAudioForwarded(f, ok) ==
  /\ UNCHANGED <<capVars, srvVars>>
  /\ f \in forwards
  /\ forwards' = forwards \ {f}
  /\ LET dest == AfterForward(ok)
     IN /\ queue' = IF dest = "local" THEN PlayerAddToQueue(queue, f.chunk) ELSE queue
        /\ last' = [NoLast EXCEPT !.type = "AUDIO_FORWARDED", !.chunk = f.chunk,
                                  !.routed = dest]
  /\ latencyData' = LatencyFirstAudio(latencyData, f.interactionId, now)
  /\ avatarFailed' = (avatarFailed \/ ~ok)
  /\ UNCHANGED <<bridge, ws, now, textVars, appVars,
                 ocPc, ocHeygen, tokenFailed, stPc, stLocals>>

\* CancelStopsPlayer with player.stop() placed after an unguarded interrupt()
CancelStopsPlayer_AfterInterrupt(useBridge, threw) == ~(useBridge /\ threw)

\* whether player.stop() runs in the CANCEL_RESPONSE branch
CancelStopsPlayer(useBridge, threw) == TRUE

\* onMessage, packet.type === "CANCEL_RESPONSE"; threw: interrupt() throws
OnCancelResponse(c, threw) ==
  /\ UNCHANGED <<capVars, srvVars>>
  /\ Delivers(c)
  /\ (threw => UseBridge(stateRef))
  /\ LET stops == CancelStopsPlayer(UseBridge(stateRef), threw)
     IN /\ queue' = IF stops THEN PlayerStop(queue) ELSE queue
        /\ last' = [NoLast EXCEPT !.type = "CANCEL_RESPONSE",
                                  !.playerStopped = stops,
                                  !.interrupts = IF UseBridge(stateRef) THEN 1 ELSE 0,
                                  !.interruptThrew = threw,
                                  !.queueWas = Len(queue),
                                  !.connectedWas = isHeygenConnected,
                                  !.readyWas = isHeygenStreamReady,
                                  !.sessionWas = heygenSession]
  /\ avatarFailed' = (avatarFailed \/ threw)
  /\ UNCHANGED <<bridge, ws, textVars, appVars, audioVars, latVars,
                 ocPc, ocHeygen, tokenFailed, stPc, stLocals>>

\* ------------------------------------------- LiveAvatarSession event listeners
\* SESSION_STATE_CHANGED listener, state === CONNECTED
BridgeConnected(s) ==
  /\ UNCHANGED <<capVars, srvVars>>
  /\ bridge[s].state = "connecting"
  /\ bridge' = [bridge EXCEPT ![s].state = "connected"]
  /\ isHeygenConnected' = IF bridge[s].listeners THEN TRUE ELSE isHeygenConnected
  /\ last' = NoLast
  /\ UNCHANGED <<chatting, open, agent, connection, heygenSession, isHeygenStreamReady,
                 heygenSessionToken, stateRef, key, queue, ws,
                 textVars, audioVars, flowVars, latVars>>

\* SESSION_STREAM_READY listener
BridgeStreamReady(s) ==
  /\ UNCHANGED <<capVars, srvVars>>
  /\ bridge[s].state = "connected"
  /\ bridge' = [bridge EXCEPT ![s].state = "ready"]
  /\ isHeygenStreamReady' = IF bridge[s].listeners THEN TRUE ELSE isHeygenStreamReady
  /\ last' = NoLast
  /\ UNCHANGED <<chatting, open, agent, connection, heygenSession, isHeygenConnected,
                 heygenSessionToken, stateRef, key, queue, ws,
                 textVars, audioVars, flowVars, latVars>>

\* ListenersAfter without session.removeAllListeners()
ListenersAfter_Kept(state) == TRUE

\* whether the session's listeners are still attached once the
\* SESSION_STATE_CHANGED listener has handled `state`
ListenersAfter(state) == state # "disconnected"

\* what the SESSION_STATE_CHANGED listener does to a flag on DISCONNECTED
DisconnectedFlag(s, flag) == IF bridge[s].listeners THEN FALSE ELSE flag

\* SESSION_STATE_CHANGED listener, state === DISCONNECTED (the bridge drops by itself)
BridgeDisconnected(s) ==
  /\ UNCHANGED <<capVars, srvVars>>
  /\ bridge[s].state \in {"connecting", "connected", "ready"}
  /\ bridge' = [bridge EXCEPT ![s] = [state |-> "disconnected",
                                      listeners |-> ListenersAfter("disconnected")]]
  /\ isHeygenConnected' = DisconnectedFlag(s, isHeygenConnected)
  /\ isHeygenStreamReady' = DisconnectedFlag(s, isHeygenStreamReady)
  /\ last' = NoLast
  /\ UNCHANGED <<chatting, open, agent, connection, heygenSession,
                 heygenSessionToken, stateRef, key, queue, ws,
                 textVars, audioVars, flowVars, latVars>>

\* events a session can still emit after it has disconnected
LateEvents == {"connected", "streamReady", "disconnected", "error"}

\* a session that has disconnected emits a further event: it reaches the listeners
\* that are still attached
BridgeLateEvent(s, event) ==
  /\ UNCHANGED <<capVars, srvVars>>
  /\ bridge[s].state = "disconnected"
  /\ s \notin FreeSessions
  /\ IF bridge[s].listeners
     THEN /\ isHeygenConnected' =
               (IF event = "connected" THEN TRUE
                ELSE IF event = "disconnected" THEN FALSE ELSE isHeygenConnected)
          /\ isHeygenStreamReady' =
               (IF event = "streamReady" THEN TRUE
                ELSE IF event = "disconnected" THEN FALSE ELSE isHeygenStreamReady)
          /\ avatarFailed' = (avatarFailed \/ event = "error")
          /\ bridge' = [bridge EXCEPT ![s].listeners =
                          IF event = "disconnected"
                          THEN ListenersAfter("disconnected") ELSE @]
     ELSE UNCHANGED <<isHeygenConnected, isHeygenStreamReady, avatarFailed, bridge>>
  /\ last' = [NoLast EXCEPT !.type = "LATE_EVENT", !.sessionWas = s, !.event = event]
  /\ UNCHANGED <<chatting, open, agent, connection, heygenSession,
                 heygenSessionToken, stateRef, key, queue, ws,
                 textVars, audioVars, latVars,
                 ocPc, ocHeygen, tokenFailed, stPc, stLocals>>

\* "error" listener of the session: it logs and shows a toast
BridgeError(s) ==
  /\ UNCHANGED <<capVars, srvVars>>
  /\ bridge[s].state \in {"connecting", "connected", "ready"}
  /\ bridge[s].listeners
  /\ avatarFailed' = TRUE
  /\ last' = [NoLast EXCEPT !.type = "BRIDGE_ERROR", !.sessionWas = s]
  /\ UNCHANGED <<textVars, appVars, envVars, audioVars, latVars,
                 ocPc, ocHeygen, tokenFailed, stPc, stLocals>>

\* --------------------------------------------------- WebSocket event listeners
\* "open" listener: onOpen
WsOpen(c) ==
  /\ UNCHANGED <<capVars, srvVars>>
  /\ ws[c].readyState = "connecting"
  /\ ws' = [ws EXCEPT ![c].readyState = "open"]
  /\ open' = IF ws[c].onMessage THEN TRUE ELSE open
  /\ last' = NoLast
  /\ UNCHANGED <<chatting, agent, connection, heygenSession, isHeygenConnected,
                 isHeygenStreamReady, heygenSessionToken, stateRef, key,
                 queue, bridge, textVars, audioVars, flowVars, latVars>>

\* "error" listener, and "close" listener with event.code === 1008: setChatting(false)
WsFailed(c) ==
  /\ ws[c].readyState \in {"connecting", "open"}
  /\ ws' = [ws EXCEPT ![c] = DeadSocket]
  /\ chatting' = FALSE
  /\ HandleClose(c)
  /\ UNCHANGED <<open, agent, connection, heygenSession, isHeygenConnected,
                 isHeygenStreamReady, heygenSessionToken, stateRef, key,
                 queue, bridge, textVars, audioVars, flowVars, latVars>>

\* "close" listener with any other code: logs only
WsClosed(c) ==
  /\ ws[c].readyState \in {"connecting", "open"}
  /\ ws' = [ws EXCEPT ![c] = DeadSocket]
  /\ HandleClose(c)
  /\ UNCHANGED <<queue, bridge, textVars, appVars, audioVars, flowVars, latVars>>

\* ------------------------------------------------------------ openConnection
\* key = v4(): an identifier different from the one in use
FreshKey(k) == IF k = 1 THEN 2 ELSE 1

\* onStart click: openConnection up to the first await: key = v4(), setChatting(true);
\* React commits at the end of the click handler
OpenConnection ==
  /\ ~stateRef.chatting
  /\ ocPc = "idle"
  /\ key' = FreshKey(key)
  /\ chatting' = TRUE
  /\ ocPc' = "load"
  /\ tokenFailed' = FALSE
  /\ avatarFailed' = FALSE
  /\ last' = NoLast
  /\ UNCHANGED <<open, agent, connection, heygenSession, isHeygenConnected,
                 isHeygenStreamReady, heygenSessionToken, heygenApiKey,
                 interval, stream, audioWorkletNode, bufVars, srvVars,
                 ocHeygen, stPc, stLocals, textVars, envVars, audioVars, latVars>>
  /\ Commit(rec, isRecording)

\* openConnection that goes on to the transport after a rejected load
AfterLoad_NoReturn(ok) == "delay"

\* where openConnection stands once the load response is read: if (!response.ok)
\* it returns, otherwise it waits 100 ms before it opens the transport
AfterLoad(ok) == IF ok THEN "delay" ELSE "idle"

\* the configuration fetch and the load request have settled; a rejected load:
\* setChatting(false), toast.error, return
LoadDone(shouldStartHeygen, ok) ==
  /\ UNCHANGED <<isRecording, chatRef, rec, interval, stream, audioWorkletNode, bufVars,
                 video, srvVars>>
  /\ ocPc = "load"
  /\ heygenApiKey' = (heygenApiKey \/ shouldStartHeygen)
  /\ ocPc' = AfterLoad(ok)
  /\ IF ok
     THEN /\ agent' = TRUE
          /\ ocHeygen' = shouldStartHeygen
          /\ last' = NoLast
          /\ UNCHANGED chatting
     ELSE /\ chatting' = FALSE
          /\ ocHeygen' = FALSE
          /\ last' = [NoLast EXCEPT !.type = "LOAD_REJECTED", !.toast = TRUE]
          /\ UNCHANGED agent
  /\ UNCHANGED <<open, connection, heygenSession, isHeygenConnected,
                 isHeygenStreamReady, heygenSessionToken, stateRef, key,
                 tokenFailed, avatarFailed, stPc, stLocals, textVars, envVars, audioVars, latVars>>

\* after the 100 ms delay: new WebSocket, listeners, setConnection(ws)
Connect ==
  /\ UNCHANGED <<capVars, srvVars>>
  /\ ocPc = "delay"
  /\ FreeSockets # {}
  /\ LET c == Lowest(FreeSockets)
     IN /\ ws' = [ws EXCEPT ![c] = [readyState |-> "connecting", onMessage |-> TRUE]]
        /\ connection' = c
  /\ ocPc' = IF ocHeygen THEN "token" ELSE "idle"
  /\ ocHeygen' = FALSE
  /\ last' = NoLast
  /\ UNCHANGED <<chatting, open, agent, heygenSession, isHeygenConnected,
                 isHeygenStreamReady, heygenSessionToken, stateRef, key,
                 queue, bridge, tokenFailed, avatarFailed, stPc, stLocals,
                 textVars, audioVars, latVars>>

\* startHeygenSession: the token request failed; openConnection catches the error
TokenFailed ==
  /\ UNCHANGED <<isRecording, chatRef, rec, interval, stream, audioWorkletNode, bufVars,
                 video, srvVars>>
  /\ ocPc = "token"
  /\ ocPc' = "idle"
  /\ heygenApiKey' = FALSE
  /\ tokenFailed' = TRUE
  /\ avatarFailed' = TRUE
  /\ last' = NoLast
  /\ UNCHANGED <<ocHeygen, stPc, stLocals, textVars, appVars, envVars, audioVars, latVars>>

\* startHeygenSession: token received, session constructed, listeners attached,
\* setHeygenSession(session), session.start() called
TokenIssued ==
  /\ UNCHANGED <<capVars, srvVars>>
  /\ ocPc = "token"
  /\ FreeSessions # {}
  /\ LET s == Lowest(FreeSessions)
     IN /\ heygenSessionToken' = s
        /\ heygenSession' = s
        /\ bridge' = [bridge EXCEPT ![s] = [state |-> "connecting", listeners |-> TRUE]]
  /\ ocPc' = "start"
  /\ last' = NoLast
  /\ UNCHANGED <<chatting, open, agent, connection, isHeygenConnected,
                 isHeygenStreamReady, stateRef, key, queue, ws,
                 ocHeygen, tokenFailed, avatarFailed, stPc, stLocals, textVars, audioVars, latVars>>

\* what api.liveavatar.com answers to the token request of the /api/start-session
\* route: a token, an error status, a body without the data object, or a data
\* object without session_token
Upstreams == {"token", "errorStatus", "noData", "noToken"}

\* the route startHeygenSession: the status it answers with and whether the body
\* carries a token (reading data.data.session_token of a body without data throws:
\* 500; an undefined session_token is left out of the 200 body)
StartSessionRoute(upstream) ==
  CASE upstream = "token" -> [status |-> 200, token |-> TRUE]
    [] upstream = "errorStatus" -> [status |-> 401, token |-> FALSE]
    [] upstream = "noData" -> [status |-> 500, token |-> FALSE]
    [] upstream = "noToken" -> [status |-> 200, token |-> FALSE]

\* a LiveAvatarSession constructed without a token: it cannot connect
Tokenless == [state |-> "unstarted", listeners |-> TRUE]

\* startHeygenSession: the response is ok and carries no token:
\* setHeygenSessionToken(undefined), new LiveAvatarSession(undefined, ...), listeners
\* attached, setHeygenSession(session), session.start() called
TokenAbsent ==
  /\ UNCHANGED <<capVars, srvVars>>
  /\ ocPc = "token"
  /\ \E upstream \in Upstreams :
       /\ StartSessionRoute(upstream).status = 200
       /\ ~StartSessionRoute(upstream).token
  /\ FreeSessions # {}
  /\ LET s == Lowest(FreeSessions)
     IN /\ heygenSessionToken' = 0
        /\ heygenSession' = s
        /\ bridge' = [bridge EXCEPT ![s] = Tokenless]
  /\ ocPc' = "start"
  /\ last' = NoLast
  /\ UNCHANGED <<chatting, open, agent, connection, isHeygenConnected,
                 isHeygenStreamReady, stateRef, key, queue, ws,
                 ocHeygen, tokenFailed, avatarFailed, stPc, stLocals,
                 textVars, audioVars, latVars>>

\* await session.start() has settled: resolved (ok), or rejected and caught by
\* openConnection, which continues without the avatar: setHeygenApiKey(undefined);
\* the session and the other adapter state stay as they are
SessionStartDone(ok) ==
  /\ UNCHANGED <<isRecording, chatRef, rec, interval, stream, audioWorkletNode, bufVars,
                 video, srvVars>>
  /\ ocPc = "start"
  /\ ocPc' = "idle"
  /\ heygenApiKey' = (ok /\ heygenApiKey)
  /\ last' = NoLast
  /\ UNCHANGED <<ocHeygen, tokenFailed, avatarFailed, stPc, stLocals,
                 textVars, appVars, envVars, audioVars, latVars>>

\* -------------------------------------------------------------- stopChatting
\* connection.close() and removeEventListener on the connection read at entry
ClosedBy(locals) ==
  IF locals.connection # NoConnection
  THEN [ws EXCEPT ![locals.connection] = DeadSocket]
  ELSE ws

\* onStopChatting click: stopChatting up to its first await (with no avatar session:
\* up to the unload request); React commits at the end of the click handler
StopChatting ==
  /\ stateRef.chatting
  /\ stPc = "idle"
  /\ LET locals == [connection |-> stateRef.connection,
                    heygenSession |-> stateRef.heygenSession,
                    token |-> stateRef.heygenSessionToken]
     IN /\ chatting' = FALSE
        /\ open' = FALSE
        /\ queue' = PlayerStop(queue)
        /\ IF locals.heygenSession # NoSession
           THEN /\ stPc' = "avatarStop"
                /\ stLocals' = locals
                /\ UNCHANGED <<chatHistory, latencyData, ws, connection, agent>>
           ELSE /\ stPc' = "unload"
                /\ stLocals' = NoLocals
                /\ chatHistory' = << >>
                /\ latencyData' = << >>
                /\ ws' = ClosedBy(locals)
                /\ connection' = NoConnection
                /\ agent' = FALSE
  /\ last' = [NoLast EXCEPT !.type = "STOP_CHATTING",
                            !.sessionWas = stateRef.heygenSession,
                            !.tokenWas = stateRef.heygenSessionToken]
  /\ UNCHANGED <<heygenSession, isHeygenConnected, isHeygenStreamReady,
                 heygenSessionToken, key, bridge, heygenApiKey,
                 interval, stream, audioWorkletNode, bufVars, srvVars,
                 markerSeq, nPackets, finalSeen, finalKept, partialKept, now,
                 audioVars, ocPc, ocHeygen, tokenFailed, avatarFailed>>
  /\ Commit(rec, isRecording)

\* await currentHeygenSession.stop() rejected: the catch only logs; then the
\* synchronous tail (clear collections, close the connection) and the unload request
AvatarStopFailed ==
  /\ UNCHANGED <<capVars, srvVars>>
  /\ stPc = "avatarStop"
  /\ stPc' = "unload"
  /\ stLocals' = NoLocals
  /\ chatHistory' = << >>
  /\ latencyData' = << >>
  /\ ws' = ClosedBy(stLocals)
  /\ connection' = NoConnection
  /\ agent' = FALSE
  /\ last' = [NoLast EXCEPT !.type = "AVATAR_STOP", !.failed = TRUE,
                            !.sessionWas = stLocals.heygenSession,
                            !.tokenWas = stLocals.token]
  /\ UNCHANGED <<chatting, open, heygenSession, isHeygenConnected, isHeygenStreamReady,
                 heygenSessionToken, stateRef, key, queue, bridge,
                 markerSeq, nPackets, finalSeen, finalKept, partialKept, now,
                 audioVars, ocPc, ocHeygen, tokenFailed, avatarFailed>>

\* await currentHeygenSession.stop() resolved: the bridge is disconnected (its
\* DISCONNECTED event reaches the listener if still attached); with a token the
\* stop-session request is sent next
AvatarStopped ==
  /\ UNCHANGED <<capVars, srvVars>>
  /\ stPc = "avatarStop"
  /\ bridge' = [bridge EXCEPT ![stLocals.heygenSession] = DeadBridge]
  /\ IF stLocals.token # 0
     THEN /\ stPc' = "revoke"
          /\ isHeygenConnected' = DisconnectedFlag(stLocals.heygenSession, isHeygenConnected)
          /\ isHeygenStreamReady' =
               DisconnectedFlag(stLocals.heygenSession, isHeygenStreamReady)
          /\ UNCHANGED <<heygenSession, heygenSessionToken, chatHistory, latencyData,
                         ws, connection, agent, stLocals>>
     ELSE /\ stPc' = "unload"
          /\ stLocals' = NoLocals
          /\ heygenSession' = NoSession
          /\ isHeygenConnected' = FALSE
          /\ isHeygenStreamReady' = FALSE
          /\ heygenSessionToken' = 0
          /\ chatHistory' = << >>
          /\ latencyData' = << >>
          /\ ws' = ClosedBy(stLocals)
          /\ connection' = NoConnection
          /\ agent' = FALSE
  /\ last' = [NoLast EXCEPT !.type = "AVATAR_STOP",
                            !.sessionWas = stLocals.heygenSession,
                            !.tokenWas = stLocals.token,
                            !.sent = (stLocals.token # 0)]
  /\ UNCHANGED <<chatting, open, stateRef, key, queue,
                 markerSeq, nPackets, finalSeen, finalKept, partialKept, now,
                 audioVars, ocPc, ocHeygen, tokenFailed, avatarFailed>>

\* the stop-session request has settled (ok: fulfilled; a failure is only logged): the adapter
\* state is cleared, then the synchronous tail runs and the unload request is sent
RevokeDone(ok) ==
  /\ UNCHANGED <<capVars, srvVars>>
  /\ stPc = "revoke"
  /\ stPc' = "unload"
  /\ stLocals' = NoLocals
  /\ heygenSession' = NoSession
  /\ isHeygenConnected' = FALSE
  /\ isHeygenStreamReady' = FALSE
  /\ heygenSessionToken' = 0
  /\ chatHistory' = << >>
  /\ latencyData' = << >>
  /\ ws' = ClosedBy(stLocals)
  /\ connection' = NoConnection
  /\ agent' = FALSE
  /\ last' = [NoLast EXCEPT !.type = "REVOKE", !.failed = ~ok,
                            !.sessionWas = stLocals.heygenSession,
                            !.tokenWas = stLocals.token]
  /\ UNCHANGED <<chatting, open, stateRef, key, queue, bridge,
                 markerSeq, nPackets, finalSeen, finalKept, partialKept, now,
                 audioVars, ocPc, ocHeygen, tokenFailed, avatarFailed>>

\* the unload request has settled: key = ""
UnloadDone ==
  /\ UNCHANGED <<capVars, srvVars>>
  /\ stPc = "unload"
  /\ stPc' = "idle"
  /\ key' = 0
  /\ last' = NoLast
  /\ UNCHANGED <<chatting, open, agent, connection, heygenSession, isHeygenConnected,
                 isHeygenStreamReady, heygenSessionToken, stateRef, stLocals,
                 textVars, envVars, audioVars, latVars, ocPc, ocHeygen, tokenFailed, avatarFailed>>

\* ------------------------------------------------------------------ SpecAvatar
NextAvatar ==
  \/ Render
  \/ PlayerPlayed
  \/ \E c \in ConnIds : OnAudio(c, "T1", Float32Pcm)
  \/ \E f \in forwards, ok \in BOOLEAN : OnAudioForwarded(f, ok)
  \/ \E c \in ConnIds, threw \in BOOLEAN : OnCancelResponse(c, threw)
  \/ \E s \in SessionIds : BridgeConnected(s)
  \/ \E s \in SessionIds : BridgeStreamReady(s)
  \/ \E s \in SessionIds : BridgeDisconnected(s)
  \/ \E s \in SessionIds : BridgeError(s)
  \/ \E c \in ConnIds : WsOpen(c)
  \/ \E c \in ConnIds : WsFailed(c)
  \/ \E c \in ConnIds : WsClosed(c)
  \/ OpenConnection
  \/ \E should \in BOOLEAN, ok \in BOOLEAN : LoadDone(should, ok)
  \/ Connect
  \/ TokenFailed
  \/ TokenIssued
  \/ TokenAbsent
  \/ \E ok \in BOOLEAN : SessionStartDone(ok)
  \/ StopChatting
  \/ AvatarStopFailed
  \/ AvatarStopped
  \/ \E ok \in BOOLEAN : RevokeDone(ok)
  \/ UnloadDone

\* The client with the avatar adapter, audio routing and the session lifecycle.
SpecAvatar == Init /\ [][NextAvatar]_vars

\* ------------------------------------------------- Chat: capture handlers
\* readyState of the connection a closure holds
ReadyStateOf(c) == IF c = NoConnection THEN "none" ELSE ws[c].readyState

\* setIsRecording(false) in the catch of a startRecording call: it acts on the
\* mounted Chat only if that is still the instance that made the call
ResetBy(caller) == IF caller THEN FALSE ELSE isRecording

\* handleSpeakClick of the committed render: return if !isLoaded || !connection;
\* stopRecording if isRecording; otherwise startRecording up to await getUserMedia.
\* React commits at the end of the click handler.
HandleSpeakClick ==
  /\ chatRef.mounted
  /\ UNCHANGED <<stateVars, heygenApiKey>>
  /\ IF ~chatRef.isLoaded \/ chatRef.connection = NoConnection
     THEN /\ last' = [NoLast EXCEPT !.type = "START_RECORDING",
                                    !.readyStateWas = ReadyStateOf(chatRef.connection)]
          /\ Commit(rec, isRecording)
          /\ UNCHANGED <<interval, stream, audioWorkletNode, leftChannel>>
     ELSE IF chatRef.isRecording
     THEN /\ last' = StopObs("STOP_RECORDING", SessionEndSent(chatRef.connection, ws))
          /\ Commit(Released, FALSE)
          /\ interval' = 0 /\ stream' = 0 /\ audioWorkletNode' = 0
          /\ leftChannel' = Reachable(Released)
     ELSE /\ FreeStarts # {}
          /\ last' = [NoLast EXCEPT !.type = "START_RECORDING", !.proceeded = TRUE,
                                    !.readyStateWas = ReadyStateOf(chatRef.connection)]
          /\ Commit([rec EXCEPT ![Lowest(FreeStarts)] =
                        [IdleStart EXCEPT !.pc = "getUserMedia",
                                          !.connection = chatRef.connection,
                                          !.caller = TRUE,
                                          !.openAtStart =
                                             (ReadyStateOf(chatRef.connection) = "open")]],
                    TRUE)
          /\ UNCHANGED <<interval, stream, audioWorkletNode, leftChannel>>
  /\ UNCHANGED <<nBatches, uplink, srvVars, textVars, envVars, audioVars, flowVars, latVars>>

\* startRecording: getUserMedia has settled; resolved: stream = ..., new AudioContext,
\* up to await addModule; rejected: the catch block
GetUserMediaDone(i, ok) ==
  /\ rec[i].pc = "getUserMedia"
  /\ IF ok
     THEN /\ rec' = [rec EXCEPT ![i].pc = "addModule", ![i].stream = TRUE]
          /\ stream' = i
          /\ UNCHANGED isRecording
     ELSE /\ rec' = [rec EXCEPT ![i] = Settle([@ EXCEPT !.pc = "idle"])]
          /\ isRecording' = ResetBy(rec[i].caller)
          /\ UNCHANGED stream
  /\ last' = NoLast
  /\ UNCHANGED <<chatRef, viewVars, interval, audioWorkletNode, bufVars, srvVars,
                 textVars, appVars, envVars, audioVars, flowVars, latVars>>

\* startRecording: addModule has settled; resolved: worklet node connected,
\* interval = setInterval(...); rejected: the catch block
AddModuleDone(i, ok) ==
  /\ rec[i].pc = "addModule"
  /\ IF ok
     THEN /\ rec' = [rec EXCEPT ![i] = Settle([@ EXCEPT !.pc = "idle", !.node = TRUE,
                                                        !.timer = TRUE])]
          /\ audioWorkletNode' = i
          /\ interval' = i
          /\ UNCHANGED isRecording
     ELSE /\ rec' = [rec EXCEPT ![i] = Settle([@ EXCEPT !.pc = "idle"])]
          /\ isRecording' = ResetBy(rec[i].caller)
          /\ UNCHANGED <<audioWorkletNode, interval>>
  /\ last' = NoLast
  /\ UNCHANGED <<chatRef, viewVars, stream, bufVars, srvVars,
                 textVars, appVars, envVars, audioVars, flowVars, latVars>>

\* audioWorkletNode.port.onmessage of call i: leftChannel.push(samples); the worklet
\* posts while its source is live and the closure's timer still reads the buffer
WorkletMessage(i) ==
  /\ rec[i].node /\ rec[i].stream /\ rec[i].timer
  /\ nBatches < MaxBatches
  /\ nBatches' = nBatches + 1
  /\ leftChannel' = [leftChannel EXCEPT ![i] = Append(@, nBatches + 1)]
  /\ last' = NoLast
  /\ UNCHANGED <<isRecording, chatRef, viewVars, rec, interval, stream, audioWorkletNode, uplink, srvVars,
                 textVars, appVars, envVars, audioVars, flowVars, latVars>>

\* the timer callback with the buffer kept when nothing was sent
BufferAfterTick_KeepUnsent(buffer, sent) == IF sent THEN << >> ELSE buffer

\* "Clear buffer regardless of send status": leftChannel = []
BufferAfterTick(buffer, sent) == << >>

\* connection.send({type: "audio", audio: leftChannel}): one message carries every
\* batch of the buffer
Carried(buffer) ==
  [b \in BatchIds |-> IF InQueue(buffer, b) /\ uplink[b] < 2 THEN uplink[b] + 1
                      ELSE uplink[b]]

\* the setInterval callback of call i: with samples buffered it sends them if the
\* captured connection is OPEN and clears the buffer either way
TimerTick(i) ==
  /\ rec[i].timer
  /\ LET buffer == leftChannel[i]
         sent == buffer # << >> /\ ReadyStateOf(rec[i].connection) = "open"
     IN /\ uplink' = IF sent THEN Carried(buffer) ELSE uplink
        /\ leftChannel' = IF buffer # << >>
                          THEN [leftChannel EXCEPT ![i] = BufferAfterTick(buffer, sent)]
                          ELSE leftChannel
        /\ last' = [NoLast EXCEPT !.type = "TICK",
                                  !.queueWas = Len(buffer),
                                  !.readyStateWas = ReadyStateOf(rec[i].connection),
                                  !.sent = sent]
  /\ UNCHANGED <<isRecording, chatRef, viewVars, rec, interval, stream, audioWorkletNode, nBatches, srvVars,
                 textVars, appVars, envVars, audioVars, flowVars, latVars>>

\* onMessage, packet.type === "ERROR": stopRecordingRef.current() if Chat exposed one
OnError(c) ==
  /\ Delivers(c)
  /\ IF chatRef.mounted
     THEN /\ StopRecording
          /\ last' = StopObs("ERROR", SessionEndSent(chatRef.connection, ws))
     ELSE /\ UNCHANGED <<capVars, srvVars>>
          /\ last' = [NoLast EXCEPT !.type = "ERROR"]
  /\ UNCHANGED <<textVars, appVars, envVars, audioVars, flowVars, latVars>>

\* ----------------------------------------------------------------- SpecCapture
\* A conversation without the avatar (shouldStartHeygen false) and the microphone
\* capture of Chat.
NextCapture ==
  \/ Render
  \/ OpenConnection
  \/ \E ok \in BOOLEAN : LoadDone(FALSE, ok)
  \/ Connect
  \/ \E c \in ConnIds : WsOpen(c)
  \/ \E c \in ConnIds : WsFailed(c)
  \/ \E c \in ConnIds : WsClosed(c)
  \/ StopChatting
  \/ UnloadDone
  \/ HandleSpeakClick
  \/ \E i \in StartIds, ok \in BOOLEAN : GetUserMediaDone(i, ok)
  \/ \E i \in StartIds, ok \in BOOLEAN : AddModuleDone(i, ok)
  \/ \E i \in StartIds : TimerTick(i)
  \/ \E c \in ConnIds : OnError(c)

SpecCapture == Init /\ [][NextCapture]_vars

\* --------------------------------------------------------------- SpecRecording
\* The microphone capture of Chat within one conversation without the avatar, from
\* "start" to the loss of its transport.
NextRecording ==
  \/ Render
  \/ (connection = NoConnection /\ OpenConnection)
  \/ \E ok \in BOOLEAN : LoadDone(FALSE, ok)
  \/ Connect
  \/ \E c \in ConnIds : WsOpen(c)
  \/ \E c \in ConnIds : WsFailed(c)
  \/ \E c \in ConnIds : WsClosed(c)
  \/ HandleSpeakClick
  \/ \E i \in StartIds, ok \in BOOLEAN : GetUserMediaDone(i, ok)
  \/ \E i \in StartIds, ok \in BOOLEAN : AddModuleDone(i, ok)
  \/ \E i \in StartIds : TimerTick(i)
  \/ \E c \in ConnIds : OnError(c)

SpecRecording == Init /\ [][NextRecording]_vars

\* ------------------------------------------------------------------ SpecUplink
\* no more than two startRecording calls are in flight or hold resources
PairOfStarts == \E j, k \in StartIds : \A i \in StartIds \ {j, k} : rec[i] = IdleStart

\* The capture of one conversation together with the samples its worklets post; the
\* user starts a capture on top of at most one earlier one.
NextUplink ==
  \/ Render
  \/ (connection = NoConnection /\ OpenConnection)
  \/ \E ok \in BOOLEAN : LoadDone(FALSE, ok)
  \/ Connect
  \/ \E c \in ConnIds : WsOpen(c)
  \/ \E c \in ConnIds : WsFailed(c)
  \/ \E c \in ConnIds : WsClosed(c)
  \/ (HandleSpeakClick /\ PairOfStarts')
  \/ \E i \in StartIds, ok \in BOOLEAN : GetUserMediaDone(i, ok)
  \/ \E i \in StartIds, ok \in BOOLEAN : AddModuleDone(i, ok)
  \/ \E i \in StartIds : WorkletMessage(i)
  \/ \E i \in StartIds : TimerTick(i)
  \/ \E c \in ConnIds : OnError(c)

SpecUplink == Init /\ [][NextUplink]_vars

\* ----------------------------------------------- onMessage: latency tracking
\* onMessage, packet.type === "NEW_INTERACTION"
OnNewInteraction(c, interactionId) ==
  /\ Delivers(c)
  /\ latencyData' = LatencyNewInteraction(latencyData, interactionId, now)
  /\ last' = [NoLast EXCEPT !.type = "NEW_INTERACTION", !.interactionId = interactionId]
  /\ UNCHANGED <<now, textVars, appVars, envVars, audioVars, flowVars, capVars, srvVars>>

\* onMessage, packet.type === "USER_SPEECH_COMPLETE"
OnUserSpeechComplete(c, interactionId) ==
  /\ Delivers(c)
  /\ latencyData' = LatencySpeechComplete(latencyData, interactionId, now)
  /\ last' = [NoLast EXCEPT !.type = "USER_SPEECH_COMPLETE",
                            !.interactionId = interactionId]
  /\ UNCHANGED <<now, textVars, appVars, envVars, audioVars, flowVars, capVars, srvVars>>

\* time passes: a later Date.now() reads a later value
ClockAdvance ==
  /\ now < MaxClock
  /\ now' = now + 1
  /\ last' = NoLast
  /\ UNCHANGED <<latencyData, textVars, appVars, envVars, audioVars, flowVars, capVars, srvVars>>

\* ----------------------------------------------------------------- SpecLatency
\* One conversation without the avatar and the packets that feed the latency
\* tracker: the packets of turn T1, with the user's final transcript as its TEXT
\* packet, and the AUDIO chunks of T1 and of a turn the tracker has no item for.
NextLatency ==
  \/ Render
  \/ (connection = NoConnection /\ OpenConnection)
  \/ \E ok \in BOOLEAN : LoadDone(FALSE, ok)
  \/ Connect
  \/ \E c \in ConnIds : WsOpen(c)
  \/ PlayerPlayed
  \/ ClockAdvance
  \/ \E c \in ConnIds : OnNewInteraction(c, "T1")
  \/ \E c \in ConnIds : OnUserSpeechComplete(c, "T1")
  \/ \E c \in ConnIds, id \in InteractionIds : OnAudio(c, id, Float32Pcm)
  \/ OnText([interactionId |-> "T1", utteranceId |-> "u1", isAgent |-> FALSE,
             text |-> <<"h", "i">>, final |-> TRUE])

SpecLatency == Init /\ [][NextLatency]_vars

\* -------------------------------------------------------------- SpecTranscript
\* the TEXT packets of one utterance of turn T1, from the user or the agent
TranscriptPackets ==
  [interactionId : {"T1"}, utteranceId : {"u1"}, isAgent : {FALSE},
   text : UserTexts, final : BOOLEAN]
  \cup [interactionId : {"T1"}, utteranceId : {"u1"}, isAgent : {TRUE},
        text : AgentTexts, final : BOOLEAN]

\* One conversation without the avatar in which the server announces turn T1 and
\* sends the transcripts of one utterance, as the user's speech and as agent text.
NextTranscript ==
  \/ Render
  \/ (connection = NoConnection /\ OpenConnection)
  \/ \E ok \in BOOLEAN : LoadDone(FALSE, ok)
  \/ Connect
  \/ \E c \in ConnIds : WsOpen(c)
  \/ \E c \in ConnIds : OnNewInteraction(c, "T1")
  \/ \E c \in ConnIds, p \in TranscriptPackets : Delivers(c) /\ OnText(p)

SpecTranscript == Init /\ [][NextTranscript]_vars

\* ------------------------------------------------------- PCM sample conversion
\* A Float32 sample x is held as the integer x * Unit: Unit stands for 1.0
Unit == 2 ^ 16
Scale == 32767
NegScale == 32768

\* samples below, at and beyond full scale, half scale, and samples smaller than one
\* step of the 16-bit scale
Samples ==
  {-2 * Unit, -Unit - 1, -Unit, -Unit + 1, -(Unit \div 2), -2, -1, 0,
   1, 2, Unit \div 2, Unit - 1, Unit, Unit + 1, 2 * Unit}

SampleBuffers == UNION {[1..n -> Samples] : n \in 0..MaxSamples}

\* Math.max(-1, Math.min(1, x))
Clamp(x) == IF x > Unit THEN Unit ELSE IF x < -Unit THEN -Unit ELSE x

\* x * k for a sample x: the integer below the product and what is left of it, in
\* Unit-ths
FloorScaled(x, k) == (x \div Unit) * k + (((x % Unit) * k) \div Unit)
FracScaled(x, k) == ((x % Unit) * k) % Unit

\* Math.round(x * k): the nearest integer, a half goes up
MathRound(x, k) == FloorScaled(x, k) + (IF 2 * FracScaled(x, k) >= Unit THEN 1 ELSE 0)

\* the integer part of x * k, as a store into an Int16Array takes it
Truncated(x, k) ==
  IF FloorScaled(x, k) < 0 /\ FracScaled(x, k) # 0
  THEN FloorScaled(x, k) + 1
  ELSE FloorScaled(x, k)

\* a store into an Int16Array: the value modulo 2^16, as a signed 16-bit integer
ToInt16(v) == ((v + 32768) % 65536) - 32768

\* ScaleToInt16 without the clamp
ScaleToInt16_Unclamped(sample) == ToInt16(MathRound(sample, Scale))

\* convertFloat32ToInt16PCM, one sample: clamp, Math.round(clamped * 32767), store
ScaleToInt16(sample) == ToInt16(MathRound(Clamp(sample), Scale))

\* convertWavToPcm24k, one sample: clamp, s < 0 ? s * 0x8000 : s * 0x7fff, store
WavSampleToInt16(sample) ==
  LET s == Clamp(sample)
  IN ToInt16(IF s < 0 THEN Truncated(s, NegScale) ELSE Truncated(s, Scale))

\* the sample loop of convertFloat32ToInt16PCM over one decoded buffer
ConvertChunk(float32Samples) ==
  /\ last' = [NoLast EXCEPT !.type = "CONVERT", !.samples = float32Samples,
                            !.pcm = [i \in 1..Len(float32Samples) |->
                                       ScaleToInt16(float32Samples[i])]]
  /\ UNCHANGED <<clientVars, srvVars>>

\* the sample loop of convertWavToPcm24k over one decoded channel
ConvertWav(float32Data) ==
  /\ last' = [NoLast EXCEPT !.type = "CONVERT_WAV", !.samples = float32Data,
                            !.pcm = [i \in 1..Len(float32Data) |->
                                       WavSampleToInt16(float32Data[i])]]
  /\ UNCHANGED <<clientVars, srvVars>>

\* Either conversion applied to one decoded sample buffer.
NextConversion ==
  \/ \E float32Samples \in SampleBuffers : last = NoLast /\ ConvertChunk(float32Samples)
  \/ \E float32Data \in SampleBuffers : last = NoLast /\ ConvertWav(float32Data)

SpecConversion == Init /\ [][NextConversion]_vars

\* ----------------------------------------------------------------- SpecRouting
\* One conversation, from "start" to the loss of its transport: the packet handlers
\* (AUDIO with payloads that decode and that do not) and the avatar session events,
\* without stopChatting and without a second conversation on top of a connection
\* that was already made.
NextRouting ==
  \/ Render
  \/ PlayerPlayed
  \/ \E c \in ConnIds, audio \in Payloads : OnAudio(c, "T1", audio)
  \/ \E f \in forwards, ok \in BOOLEAN : OnAudioForwarded(f, ok)
  \/ \E c \in ConnIds, threw \in BOOLEAN : OnCancelResponse(c, threw)
  \/ \E s \in SessionIds : BridgeConnected(s)
  \/ \E s \in SessionIds : BridgeStreamReady(s)
  \/ \E s \in SessionIds : BridgeDisconnected(s)
  \/ \E s \in SessionIds : BridgeError(s)
  \/ \E s \in SessionIds, event \in LateEvents : BridgeLateEvent(s, event)
  \/ \E c \in ConnIds : WsOpen(c)
  \/ \E c \in ConnIds : WsFailed(c)
  \/ \E c \in ConnIds : WsClosed(c)
  \/ (connection = NoConnection /\ OpenConnection)
  \/ \E should \in BOOLEAN, ok \in BOOLEAN : LoadDone(should, ok)
  \/ Connect
  \/ TokenFailed
  \/ TokenIssued
  \/ TokenAbsent
  \/ \E ok \in BOOLEAN : SessionStartDone(ok)

SpecRouting == Init /\ [][NextRouting]_vars

\* ------------------------------------------------------- server: InworldApp
\* a || b on credentials
OrKey(a, b) == IF a # NoKey THEN a ELSE b

\* what a /load request carries: the client's credentials, the voice getAgentConfig
\* picks for the prompt, the STT service asked for ("" when absent), and what is
\* wrong with the request otherwise: "invalid" (validationResult has errors),
\* "body" (req.body was not parsed, so reading req.body.agent throws), "prompt"
\* (agent.systemPrompt is no string, so createSystemMessage throws), or "none"
LoadRequests ==
  [inworldApiKey : {NoKey, "kc"}, assemblyAiApiKey : {NoKey, "ac"},
   sttService : {"", "assemblyai", "whisper"}, voiceId : VoiceIds,
   defect : {"none", "invalid", "body", "prompt"}]

\* req.body.sttService || "assemblyai"
SttServiceOf(req) == IF req.sttService # "" THEN req.sttService ELSE "assemblyai"

\* the path load takes through its checks, in the order of the code
LoadOutcome(req) ==
  IF req.defect = "invalid" THEN "invalid"
  ELSE IF req.defect = "body" THEN "throws"
  ELSE IF OrKey(req.inworldApiKey, env.apiKey) = NoKey THEN "noInworldKey"
  ELSE IF SttServiceOf(req) # "assemblyai" THEN "unsupportedStt"
  ELSE IF OrKey(req.assemblyAiApiKey, env.assemblyAIApiKey) = NoKey THEN "noAssemblyKey"
  ELSE IF req.defect = "prompt" THEN "throws"
  ELSE "ok"

\* res.status(...) of each path; 200 is the default status of res.end
StatusOf(outcome) ==
  CASE outcome = "ok" -> 200
    [] outcome = "throws" -> 500
    [] OTHER -> 400

\* load with the entry stored before the credentials and the STT service are checked
Registers_BeforeChecks(outcome) == outcome \notin {"invalid", "throws"}

\* whether load reaches this.connections[sessionId] = {...}
Registers(outcome) == outcome = "ok"

\* the entry load stores
EntryOf(req) ==
  [loaded |-> TRUE, voiceId |-> req.voiceId,
   inworldApiKey |-> OrKey(req.inworldApiKey, env.apiKey),
   assemblyAiApiKey |-> OrKey(req.assemblyAiApiKey, env.assemblyAIApiKey),
   unloaded |-> FALSE, ws |-> FALSE]

\* initialize(): this.connections = {}, this.env = parseEnvironmentVariables()
Initialize(apiKey, assemblyAIApiKey) ==
  /\ ~env.initialized
  /\ env' = [initialized |-> TRUE, apiKey |-> apiKey,
             assemblyAIApiKey |-> assemblyAIApiKey, voiceId |-> "v1"]
  /\ connections' = [id \in RegistryIds |-> NoEntry]
  /\ last' = NoLast
  /\ UNCHANGED <<sessionTextGraphs, sessionAudioGraphs, graphCreates, graphKeys,
                 graphCalls,
                 clientVars>>

\* load(req, res)
Load(sessionId, req) ==
  /\ env.initialized
  /\ LET outcome == LoadOutcome(req)
     IN /\ connections' = IF Registers(outcome)
                          THEN [connections EXCEPT ![sessionId] = EntryOf(req)]
                          ELSE connections
        /\ last' = [NoLast EXCEPT !.type = "LOAD", !.session = sessionId,
                                  !.outcome = outcome, !.status = StatusOf(outcome),
                                  !.inworldKeyWas = OrKey(req.inworldApiKey, env.apiKey),
                                  !.assemblyKeyWas =
                                     OrKey(req.assemblyAiApiKey, env.assemblyAIApiKey),
                                  !.sttWas = SttServiceOf(req)]
  /\ UNCHANGED <<env, sessionTextGraphs, sessionAudioGraphs, graphCreates, graphKeys,
                 graphCalls,
                 clientVars>>

\* unload(req, res)
Unload(sessionId, valid) ==
  /\ env.initialized
  /\ IF valid /\ connections[sessionId].loaded
     THEN /\ connections' = [connections EXCEPT ![sessionId].unloaded = TRUE]
          /\ last' = [NoLast EXCEPT !.type = "UNLOAD", !.session = sessionId,
                                    !.status = 200]
     ELSE /\ UNCHANGED connections
          /\ last' = [NoLast EXCEPT !.type = "UNLOAD", !.session = sessionId,
                                    !.status = IF valid THEN 404 ELSE 400]
  /\ UNCHANGED <<env, sessionTextGraphs, sessionAudioGraphs, graphCreates, graphKeys,
                 graphCalls,
                 clientVars>>

\* the client's WebSocket for a loaded session is accepted: the session's entry
\* takes the transport as its ws (one live transport per session)
BindTransport(sessionId) ==
  /\ env.initialized
  /\ connections[sessionId].loaded
  /\ ~connections[sessionId].ws
  /\ connections' = [connections EXCEPT ![sessionId].ws = TRUE]
  /\ last' = [NoLast EXCEPT !.type = "BIND", !.session = sessionId]
  /\ UNCHANGED <<env, sessionTextGraphs, sessionAudioGraphs, graphCreates, graphKeys,
                 graphCalls,
                 clientVars>>

\* connection.state.voiceId || this.voiceId
VoiceOf(entry) == IF entry.voiceId # "" THEN entry.voiceId ELSE env.voiceId

\* InworldGraphWrapper.create calls made for one cache
CreatesOf(cache) == graphCreates[cache]["v1"] + graphCreates[cache]["v2"]

\* a getter found no graph for the voice: InworldGraphWrapper.create is invoked and
\* the getter suspends on it
CreateGraph(cache, voiceId, apiKey) ==
  /\ CreatesOf("text") + CreatesOf("audio") < MaxCreates
  /\ graphCreates' = [graphCreates EXCEPT ![cache][voiceId] = @ + 1]
  /\ graphCalls' = graphCalls \cup
       {[cache |-> cache, voiceId |-> voiceId, apiKey |-> apiKey,
         handle |-> graphCreates[cache][voiceId] + 1]}

\* getTextGraphForSession(sessionId) up to its await or its return
getTextGraphForSession(sessionId) ==
  /\ env.initialized
  /\ LET entry == connections[sessionId]
         voiceId == VoiceOf(entry)
     IN IF ~entry.loaded
        THEN /\ last' = [NoLast EXCEPT !.type = "TEXT_GRAPH", !.session = sessionId,
                                       !.outcome = "throws"]
             /\ UNCHANGED <<graphCreates, graphCalls>>
        ELSE IF sessionTextGraphs[voiceId] # 0
        THEN /\ last' = [NoLast EXCEPT !.type = "TEXT_GRAPH", !.session = sessionId,
                                       !.outcome = "cached",
                                       !.inworldKeyWas =
                                          OrKey(entry.inworldApiKey, env.apiKey),
                                       !.graphKey = graphKeys["text"][voiceId]]
             /\ UNCHANGED <<graphCreates, graphCalls>>
        ELSE /\ CreateGraph("text", voiceId, OrKey(entry.inworldApiKey, env.apiKey))
             /\ last' = [NoLast EXCEPT !.type = "TEXT_GRAPH", !.session = sessionId,
                                       !.outcome = "create"]
  /\ UNCHANGED <<env, connections, sessionTextGraphs, sessionAudioGraphs, graphKeys,
                 clientVars>>

\* getGraphForSTTService(_sttService, sessionId) up to its await or its return;
\* known: sessionId && this.connections[sessionId]
getGraphForSTTService(sessionId) ==
  /\ env.initialized
  /\ LET known == connections[sessionId].loaded
         apiKey == IF known THEN OrKey(connections[sessionId].inworldApiKey, env.apiKey)
                   ELSE env.apiKey
         assemblyAIApiKey ==
           IF known
           THEN OrKey(connections[sessionId].assemblyAiApiKey, env.assemblyAIApiKey)
           ELSE env.assemblyAIApiKey
         voiceId == IF known THEN VoiceOf(connections[sessionId]) ELSE env.voiceId
     IN IF assemblyAIApiKey = NoKey
        THEN /\ last' = [NoLast EXCEPT !.type = "AUDIO_GRAPH", !.session = sessionId,
                                       !.outcome = "throws"]
             /\ UNCHANGED <<graphCreates, graphCalls>>
        ELSE IF sessionAudioGraphs[voiceId] # 0
        THEN /\ last' = [NoLast EXCEPT !.type = "AUDIO_GRAPH", !.session = sessionId,
                                       !.outcome = "cached", !.inworldKeyWas = apiKey,
                                       !.graphKey = graphKeys["audio"][voiceId]]
             /\ UNCHANGED <<graphCreates, graphCalls>>
        ELSE /\ CreateGraph("audio", voiceId, apiKey)
             /\ last' = [NoLast EXCEPT !.type = "AUDIO_GRAPH", !.session = sessionId,
                                       !.outcome = "create"]
  /\ UNCHANGED <<env, connections, sessionTextGraphs, sessionAudioGraphs, graphKeys,
                 clientVars>>

\* await InworldGraphWrapper.create has settled for a suspended getter; fulfilled
\* (ok): this.sessionTextGraphs / sessionAudioGraphs .set(voiceId, graph)
GraphCreated(call, ok) ==
  /\ call \in graphCalls
  /\ graphCalls' = graphCalls \ {call}
  /\ sessionTextGraphs' = IF ok /\ call.cache = "text"
                          THEN [sessionTextGraphs EXCEPT ![call.voiceId] = call.handle]
                          ELSE sessionTextGraphs
  /\ sessionAudioGraphs' = IF ok /\ call.cache = "audio"
                           THEN [sessionAudioGraphs EXCEPT ![call.voiceId] = call.handle]
                           ELSE sessionAudioGraphs
  /\ graphKeys' = IF ok THEN [graphKeys EXCEPT ![call.cache][call.voiceId] = call.apiKey]
                  ELSE graphKeys
  /\ last' = NoLast
  /\ UNCHANGED <<env, connections, graphCreates, clientVars>>

\* shutdown(): the registry and both caches are emptied
Shutdown ==
  /\ env.initialized
  /\ connections' = [id \in RegistryIds |-> NoEntry]
  /\ sessionTextGraphs' = [v \in VoiceIds |-> 0]
  /\ sessionAudioGraphs' = [v \in VoiceIds |-> 0]
  /\ graphKeys' = [c \in Caches |-> [v \in VoiceIds |-> NoKey]]
  /\ last' = NoLast
  /\ UNCHANGED <<env, graphCreates, graphCalls, clientVars>>

\* ---------------------------------------------------------------- SpecRegistry
\* The server's session registry under load, unload and shutdown.
NextRegistry ==
  \/ \E apiKey \in {NoKey, "ke"}, assemblyAIApiKey \in {NoKey, "ae"} :
       Initialize(apiKey, assemblyAIApiKey)
  \/ \E sessionId \in ServerSessionIds, req \in LoadRequests : Load(sessionId, req)
  \/ \E sessionId \in ServerSessionIds, valid \in BOOLEAN : Unload(sessionId, valid)
  \/ Shutdown

SpecRegistry == Init /\ [][NextRegistry]_vars

\* ------------------------------------------------------------------ SpecUnload
\* Sessions loaded from well-formed requests, the transport bound to them, and their
\* unload.
NextUnload ==
  \/ \E apiKey \in {NoKey, "ke"}, assemblyAIApiKey \in {NoKey, "ae"} :
       Initialize(apiKey, assemblyAIApiKey)
  \/ \E sessionId \in ServerSessionIds, req \in LoadRequests :
       /\ req.defect = "none" /\ req.sttService = "assemblyai"
       /\ Load(sessionId, req)
  \/ \E sessionId \in ServerSessionIds : BindTransport(sessionId)
  \/ \E sessionId \in ServerSessionIds, valid \in BOOLEAN : Unload(sessionId, valid)
  \/ Shutdown

SpecUnload == Init /\ [][NextUnload]_vars

\* ------------------------------------------------------------------ SpecGraphs
\* The graph caches: sessions loaded from well-formed requests that name Assembly.AI
\* and bring an Assembly.AI key, and the getters that run for their messages.
NextGraphs ==
  \/ \E apiKey \in {NoKey, "ke"}, assemblyAIApiKey \in {NoKey, "ae"} :
       Initialize(apiKey, assemblyAIApiKey)
  \/ \E sessionId \in ServerSessionIds, req \in LoadRequests :
       /\ req.defect = "none" /\ req.sttService = "assemblyai"
       /\ req.assemblyAiApiKey # NoKey
       /\ Load(sessionId, req)
  \/ \E sessionId \in ServerSessionIds : getTextGraphForSession(sessionId)
  \/ \E sessionId \in ServerSessionIds : getGraphForSTTService(sessionId)
  \/ \E call \in graphCalls, ok \in BOOLEAN : GraphCreated(call, ok)
  \/ Shutdown

SpecGraphs == Init /\ [][NextGraphs]_vars

\* ----------------------------------------------------------------- SpecTenants
\* Two sessions on a server that has its own credentials: each is loaded from a
\* well-formed request, with or without an Inworld key of its own, and asks for its
\* graphs.
NextTenants ==
  \/ Initialize("ke", "ae")
  \/ \E sessionId \in RegistryIds, req \in LoadRequests :
       /\ req.defect = "none" /\ req.sttService = "assemblyai"
       /\ req.assemblyAiApiKey # NoKey
       /\ ~connections[sessionId].loaded
       /\ Load(sessionId, req)
  \/ \E sessionId \in RegistryIds : getTextGraphForSession(sessionId)
  \/ \E sessionId \in RegistryIds : getGraphForSTTService(sessionId)
  \/ \E call \in graphCalls, ok \in BOOLEAN : GraphCreated(call, ok)

SpecTenants == Init /\ [][NextTenants]_vars

\* -------------------------------------------------------------- audio routing
\* the avatar session as the adapter state held it when the packet in `last` was
\* handled: present, connected, stream ready
ReadyWas(obs) == obs.sessionWas # NoSession /\ obs.connectedWas /\ obs.readyWas

\* C3 as stated: an AUDIO chunk is forwarded to the bridge only if, at the moment the
\* packet is handled, the avatar session is connected and its stream is ready; in
\* every other case the chunk is enqueued on the local playback queue.
C3_ForwardOnlyWhenReady ==
  last.type = "AUDIO" =>
    /\ last.routed = "bridge" => ReadyWas(last)
    /\ ~ReadyWas(last) => last.routed = "local" /\ InQueue(queue, last.chunk)

\* number of times chunk occurs in q
RECURSIVE Occurrences(_, _)
Occurrences(q, chunk) ==
  IF q = << >> THEN 0
  ELSE (IF Head(q) = chunk THEN 1 ELSE 0) + Occurrences(Tail(q), chunk)

\* C4: when the handling of an AUDIO packet completes, its chunk has gone to exactly
\* one sink: it was accepted by the bridge and is not in the local queue, or (no
\* bridge used, or the forward failed) it is in the local queue exactly once; while
\* the forward is pending the chunk is in neither.
C4_ExactlyOneSink ==
  /\ last.type \in {"AUDIO", "AUDIO_FORWARDED"} =>
       /\ last.routed \in {"bridge", "local"}
       /\ last.routed = "local" => Occurrences(queue, last.chunk) = 1
       /\ last.routed = "bridge" => Occurrences(queue, last.chunk) = 0
  /\ \A f \in forwards : Occurrences(queue, f.chunk) = 0

\* a forward that failed: the chunk is on the local queue
C4_Witness ==
  /\ last.type = "AUDIO_FORWARDED"
  /\ last.routed = "local"
  /\ Occurrences(queue, last.chunk) = 1

\* C5: handling CANCEL_RESPONSE always stops local playback, with or without an
\* avatar session and whether or not interrupt() throws.
C5_CancelAlwaysStopsPlayer ==
  last.type = "CANCEL_RESPONSE" => last.playerStopped

\* a CANCEL_RESPONSE whose interrupt() threw, handled while chunks were queued
C5_Witness ==
  /\ last.type = "CANCEL_RESPONSE"
  /\ last.interruptThrew
  /\ last.queueWas > 0
  /\ last.playerStopped
  /\ queue = << >>

\* C6 as stated: CANCEL_RESPONSE handled while the local queue is non-empty leaves
\* the queue cleared and, if the bridge is stream-ready at that moment, invokes the
\* interrupt operation exactly once.
C6_CancelClearsAndInterruptsOnce ==
  (last.type = "CANCEL_RESPONSE" /\ last.queueWas > 0) =>
    /\ queue = << >>
    /\ ReadyWas(last) => last.interrupts = 1

\* C7 as stated: after a failed token request no avatar session object exists,
\* connected and stream-ready are false, and every AUDIO packet is enqueued locally.
C7_TokenFailureMeansNoBridge ==
  /\ tokenFailed =>
       /\ heygenSession = NoSession
       /\ ~isHeygenConnected
       /\ ~isHeygenStreamReady
  /\ (last.type = "AUDIO" /\ last.tokenFailedWas) => last.routed = "local"

\* ------------------------------------------------------------------ capture
\* the send timers that exist
Timers == {i \in StartIds : rec[i].timer}

\* no startRecording call is suspended and the last state update has been rendered
Settled ==
  /\ \A i \in StartIds : rec[i].pc = "idle"
  /\ stateRef = Snapshot
  /\ chatRef = ChatSnapshot

\* C8 as stated, for the conversation still on screen: when the transport of a
\* capture that was started on an open transport closes or errors (also while the
\* start is still acquiring the microphone or initialising the worklet), capture
\* reaches the stopped state; no settled state has a send timer of that capture
\* running on a transport that is not open.
C8_CaptureStopsWithTransport ==
  (Settled /\ chatting) =>
    \A i \in Timers :
      rec[i].openAtStart => ReadyStateOf(rec[i].connection) = "open"

\* C9 as stated: at most one capture send timer exists at any time.
C9_AtMostOneTimer == Cardinality(Timers) <= 1

\* C10 as stated: startRecording acquires the microphone (and later creates a send
\* timer) only if its connection is present and open.
C10_StartNeedsOpenTransport ==
  (last.type = "START_RECORDING" /\ last.proceeded) => last.readyStateWas = "open"

\* C11 as stated: whenever stopRecording has run, alone or again right after itself,
\* capture is stopped (isRecording false, no send timer running, no microphone
\* track live, no worklet node connected), and the end-of-audio-session message went
\* out only on an open connection.
C11_StopLeavesCaptureStopped ==
  [][last'.stops > 0 =>
       /\ ~isRecording'
       /\ \A i \in StartIds : ~rec'[i].timer /\ ~rec'[i].stream /\ ~rec'[i].node
       /\ last'.sent => /\ chatRef.connection # NoConnection
                        /\ ws'[chatRef.connection].readyState = "open"]_vars

\* ----------------------------------------------------------------- audio uplink
\* C12: a timer tick that finds samples buffered leaves the buffer empty whether or
\* not it sent them; only a tick that found the connection OPEN sends, each batch is
\* carried by at most one "audio" message, and a batch that left a buffer never
\* enters one again.
C12_BatchSentAtMostOnce ==
  [][/\ \A b \in BatchIds : uplink'[b] <= 1
     /\ (last'.type = "TICK" /\ last'.queueWas > 0) =>
           \E i \in StartIds : /\ Len(leftChannel[i]) = last'.queueWas
                               /\ leftChannel'[i] = << >>
     /\ \A b \in BatchIds :
           uplink'[b] # uplink[b] =>
             /\ last'.type = "TICK" /\ last'.sent /\ last'.readyStateWas = "open"
             /\ \E i \in StartIds : InQueue(leftChannel[i], b)
     /\ \A b \in BatchIds, i \in StartIds :
           (InQueue(leftChannel'[i], b) /\ ~InQueue(leftChannel[i], b)) =>
             b > nBatches]_vars

\* a tick found a batch buffered and the connection no longer OPEN: the batch is
\* gone from every buffer and was never sent
C12_Witness ==
  /\ last.type = "TICK" /\ last.queueWas > 0 /\ ~last.sent
  /\ nBatches > 0
  /\ \A i \in StartIds : leftChannel[i] = << >>
  /\ \A b \in BatchIds : uplink[b] = 0

\* ------------------------------------------------------------------ ERROR packet
\* C13 as stated: an ERROR packet leaves the microphone capture stopped (no send timer
\* running, no microphone track live, isRecording false) and does not modify the
\* chat history.
C13_ErrorStopsCapture ==
  [][last'.type = "ERROR" =>
       /\ chatHistory' = chatHistory
       /\ ~isRecording'
       /\ \A i \in StartIds : ~rec'[i].timer /\ ~rec'[i].stream]_vars

\* -------------------------------------------------------------- latency tracker
\* the latency item of a turn, where there is exactly one
ItemOf(data, interactionId) ==
  data[CHOOSE i \in 1..Len(data) : data[i].interactionId = interactionId]

\* C14: once the latency item of a turn has its firstAudioTimestamp or its latencyMs,
\* no packet handled later (AUDIO, USER_SPEECH_COMPLETE, NEW_INTERACTION, TEXT)
\* changes either; a turn never has two items.
C14_LatencySetOnce ==
  [][/\ \A i \in 1..Len(latencyData) :
          (latencyData[i].firstAudioTimestamp # 0 \/ latencyData[i].latencyMs # Undefined)
            => /\ i <= Len(latencyData')
               /\ latencyData'[i].interactionId = latencyData[i].interactionId
               /\ latencyData'[i].firstAudioTimestamp = latencyData[i].firstAudioTimestamp
               /\ latencyData'[i].latencyMs = latencyData[i].latencyMs
     /\ \A i, j \in 1..Len(latencyData') :
          latencyData'[i].interactionId = latencyData'[j].interactionId => i = j]_vars

\* a later AUDIO chunk of a turn whose latency was computed at an earlier time
C14_Witness ==
  /\ last.type = "AUDIO"
  /\ HasLatency(latencyData, last.interactionId)
  /\ ItemOf(latencyData, last.interactionId).firstAudioTimestamp # 0
  /\ ItemOf(latencyData, last.interactionId).firstAudioTimestamp < now
  /\ ItemOf(latencyData, last.interactionId).latencyMs # Undefined
  /\ ItemOf(latencyData, last.interactionId).speechCompleteTimestamp = now

\* C15: when an AUDIO packet of a turn is handled after the turn's
\* USER_SPEECH_COMPLETE, the turn's item has speechCompleteTimestamp,
\* firstAudioTimestamp and a latencyMs that is not negative; no latencyMs is ever
\* negative while the clock does not go back.
C15_SpeechThenAudio ==
  [][/\ (/\ last'.type = "AUDIO"
         /\ HasLatency(latencyData, last'.interactionId)
         /\ ItemOf(latencyData, last'.interactionId).speechCompleteTimestamp # 0)
          => LET item == ItemOf(latencyData', last'.interactionId)
             IN /\ item.speechCompleteTimestamp # 0
                /\ item.firstAudioTimestamp # 0
                /\ item.latencyMs # Undefined
                /\ item.latencyMs[1] >= 0
     /\ \A i \in 1..Len(latencyData') :
          latencyData'[i].latencyMs # Undefined => latencyData'[i].latencyMs[1] >= 0]_vars

\* USER_SPEECH_COMPLETE at an earlier time, then the first AUDIO chunk of the turn
C15_Witness ==
  /\ last.type = "AUDIO"
  /\ HasLatency(latencyData, last.interactionId)
  /\ ItemOf(latencyData, last.interactionId).userTextTimestamp # 0
  /\ ItemOf(latencyData, last.interactionId).speechCompleteTimestamp # 0
  /\ ItemOf(latencyData, last.interactionId).speechCompleteTimestamp < now
  /\ ItemOf(latencyData, last.interactionId).firstAudioTimestamp = now
  /\ ItemOf(latencyData, last.interactionId).latencyMs =
       <<now - ItemOf(latencyData, last.interactionId).speechCompleteTimestamp>>

\* ------------------------------------------------------------- avatar teardown
\* C16 as stated: after a stopChatting call that found no avatar session because
\* there is none, and after every call that went through the avatar branch (the
\* first or a repeated one), the adapter state is disconnected: session cleared,
\* connected and stream-ready false, the listeners of the session detached.
C16_StopLeavesAdapterDisconnected ==
  [][(\/ last'.type = "STOP_CHATTING" /\ heygenSession = NoSession
      \/ last'.type = "AVATAR_STOP" /\ stPc' = "unload"
      \/ last'.type = "REVOKE")
       => /\ heygenSession' = NoSession
          /\ ~isHeygenConnected'
          /\ ~isHeygenStreamReady'
          /\ last'.sessionWas # NoSession => ~bridge'[last'.sessionWas].listeners]_vars

\* C17 as stated: whenever stopChatting stops an avatar session for which a token
\* was issued, the stop-session request with that token is sent, whether the
\* session's own stop succeeded or not.
C17_StopAlwaysRevokes ==
  [][(last'.type = "AVATAR_STOP" /\ last'.tokenWas # 0) =>
       /\ last'.sent
       /\ stPc' = "revoke"
       /\ stLocals'.token = last'.tokenWas]_vars

\* C18 as stated: when the session's stop or the stop-session request has failed,
\* the local teardown is complete all the same: session cleared, connected and
\* stream-ready false, token empty, chat history and latency data empty, the
\* connection closed.
C18_FailedStopStillTearsDown ==
  [][last'.failed =>
       /\ heygenSession' = NoSession
       /\ ~isHeygenConnected'
       /\ ~isHeygenStreamReady'
       /\ heygenSessionToken' = 0
       /\ chatHistory' = << >>
       /\ latencyData' = << >>
       /\ stLocals.connection # NoConnection =>
            ws'[stLocals.connection].readyState = "closed"]_vars

\* ------------------------------------------------------------- server registry
\* C19: a load that finds no Inworld key or no Assembly.AI key (from the client or
\* the server), or an STT service other than Assembly.AI, or that throws, answers
\* with an error status and leaves the connections registry as it was: a session id
\* without an entry has none afterwards.
C19_RejectedLoadKeepsRegistry ==
  [][(/\ last'.type = "LOAD"
      /\ \/ last'.inworldKeyWas = NoKey
         \/ last'.assemblyKeyWas = NoKey
         \/ last'.sttWas # "assemblyai"
         \/ last'.outcome = "throws")
       => /\ last'.status \in {400, 500}
          /\ connections' = connections
          /\ ~connections[last'.session].loaded => connections'[last'.session] = NoEntry]_vars

\* a load with an Inworld key and without an Assembly.AI key was rejected for a
\* session id that has no entry
C19_Witness ==
  /\ last.type = "LOAD"
  /\ last.inworldKeyWas # NoKey
  /\ last.sttWas = "assemblyai"
  /\ last.assemblyKeyWas = NoKey
  /\ last.status = 400
  /\ connections[last.session] = NoEntry

\* C20 as stated: for each cache and voice id InworldGraphWrapper.create is invoked
\* at most once, also when getters for the same voice id run concurrently.
C20_OneCreatePerVoice ==
  \A cache \in Caches, voiceId \in VoiceIds : graphCreates[cache][voiceId] <= 1

\* ------------------------------------------------------------ transcript text
\* the items of chat history h that show packet text `text` of the pair unchanged
ShownAs(h, interactionId, isAgent, text, final) ==
  {i \in 1..Len(h) : /\ h[i].type = ACTOR
                     /\ h[i].interactionId = interactionId
                     /\ h[i].isAgent = isAgent
                     /\ h[i].text = text
                     /\ h[i].isRecognizing = ~final}

\* C21: a TEXT packet that is not from the agent and whose text is empty once
\* trimmed, final or not, leaves the chat history as it was; a TEXT packet from the
\* agent with such a text is kept: afterwards the history shows its text in one item
\* of its turn, which replaced one item or was appended, the others unchanged.
C21_EmptyUserTextDropped ==
  [][(/\ last'.type = "TEXT" /\ nPackets' = nPackets + 1
      /\ Trim(last'.text) = EmptyText)
       => IF ~last'.isAgent
          THEN ~last'.kept /\ chatHistory' = chatHistory
          ELSE /\ last'.kept
               /\ Len(chatHistory') \in {Len(chatHistory), Len(chatHistory) + 1}
               /\ \E i \in ShownAs(chatHistory', last'.interactionId, TRUE,
                                    last'.text, last'.final) :
                    \A j \in 1..Len(chatHistory) :
                      j # i => chatHistory'[j] = chatHistory[j]]_vars

\* a final user transcript of white space only was dropped while the history shows
\* an agent item with an empty text
C21_Witness ==
  /\ last.type = "TEXT" /\ ~last.isAgent /\ last.final /\ last.text = Blank
  /\ ~last.kept
  /\ \E i \in 1..Len(chatHistory) :
       chatHistory[i].isAgent /\ Trim(chatHistory[i].text) = EmptyText

\* the chat item of the user's partial transcript "hello" of turn T1
HelloPartial ==
  [id |-> "u1", type |-> ACTOR, interactionId |-> "T1", isAgent |-> FALSE,
   text |-> <<"H", "e", "l", "l", "o">>, isRecognizing |-> TRUE]

HelloThereShown ==
  <<"H", "e", "l", "l", "o", " ", "t", "h", "e", "r", "e", ".">>

\* C22: the item shown for a final TEXT packet that is not from the agent has the
\* packet's text (trimmed) with its first character in upper case, and with "."
\* appended unless the text ends in ".", "!" or "?"; the item shown for an agent
\* packet has the packet's text unchanged. After new-turn(T1) and
\* TEXT(T1, user, "hello", final=false), TEXT(T1, user, "hello there", final=true)
\* leaves exactly one user item for T1, with text "Hello there." and isRecognizing
\* false.
C22_FinalUserTextNormalized ==
  [][(last'.type = "TEXT" /\ nPackets' = nPackets + 1 /\ last'.kept) =>
       /\ (~last'.isAgent /\ last'.final) =>
            \E i \in 1..Len(chatHistory') :
              LET shown == chatHistory'[i].text
                  given == Trim(last'.text)
              IN /\ chatHistory'[i].interactionId = last'.interactionId
                 /\ ~chatHistory'[i].isAgent /\ ~chatHistory'[i].isRecognizing
                 /\ Len(shown) >= Len(given)
                 /\ shown[1] = toUpperCase(given[1])
                 /\ SubSeq(shown, 2, Len(given)) = SubSeq(given, 2, Len(given))
                 /\ IF given[Len(given)] \in {".", "!", "?"}
                    THEN Len(shown) = Len(given)
                    ELSE Len(shown) = Len(given) + 1 /\ shown[Len(shown)] = "."
       /\ last'.isAgent =>
            ShownAs(chatHistory', last'.interactionId, TRUE, last'.text, last'.final)
              # {}
       /\ (/\ HasLatency(latencyData, "T1")
           /\ chatHistory = <<HelloPartial>>
           /\ last'.interactionId = "T1" /\ ~last'.isAgent /\ last'.final
           /\ last'.text = HelloThere)
            => /\ chatHistory' = <<[HelloPartial EXCEPT !.text = HelloThereShown,
                                                       !.isRecognizing = FALSE]>>
               /\ Cardinality(ItemsOf(<<"T1", FALSE>>)') = 1]_vars

\* new-turn(T1), the partial "hello" and the final "hello there" have been handled
C22_Witness ==
  /\ HasLatency(latencyData, "T1")
  /\ last.type = "TEXT" /\ last.text = HelloThere /\ last.final /\ ~last.isAgent
  /\ nPackets = 2
  /\ Len(chatHistory) = 1
  /\ chatHistory[1].text = HelloThereShown
  /\ ~chatHistory[1].isRecognizing

\* --------------------------------------------------- still-recognizing items
\* the still-recognizing items of a pair (interactionId, isAgent)
PartialItemsOf(pr) == {i \in ItemsOf(pr) : chatHistory[i].isRecognizing}

\* C28 as stated: the chat history holds at most one still-recognizing item for any
\* pair (interactionId, origin), and right after a final TEXT packet of a pair has
\* been handled it holds none for that pair.
C28_AtMostOnePartial ==
  \A pr \in Pairs :
    /\ Cardinality(PartialItemsOf(pr)) <= 1
    /\ (/\ last.type = "TEXT" /\ last.final
        /\ last.interactionId = pr[1] /\ last.isAgent = pr[2])
         => PartialItemsOf(pr) = {}

\* C28 amended: at most one still-recognizing item for any pair, and none for a
\* pair right after a final TEXT packet of the pair that yields a chat item (agent
\* text, or user text that is not empty once trimmed) has been handled.
C28_KeptFinalClearsPartial ==
  \A pr \in Pairs :
    /\ Cardinality(PartialItemsOf(pr)) <= 1
    /\ (/\ last.type = "TEXT" /\ last.final /\ last.kept
        /\ last.interactionId = pr[1] /\ last.isAgent = pr[2])
         => PartialItemsOf(pr) = {}

\* the final packet of a pair that had a still-recognizing item was handled while
\* another pair keeps its own still-recognizing item
C28_Witness ==
  \E pr \in Pairs :
    /\ last.type = "TEXT" /\ last.final /\ last.kept
    /\ last.interactionId = pr[1] /\ last.isAgent = pr[2]
    /\ partialKept[pr] >= 1
    /\ PartialItemsOf(pr) = {}
    /\ \E other \in Pairs \ {pr} : Cardinality(PartialItemsOf(other)) = 1

\* ------------------------------------------------------- avatar adapter failure
\* C23 as stated: a failure of the avatar adapter (token request, audio forwarding,
\* interrupt, error event of the session) leaves the transport and the chat mode as
\* they were, and every AUDIO packet handled in the same conversation after the
\* failure is played locally.
C23_AvatarFailureDowngrades ==
  [][/\ (avatarFailed' /\ ~avatarFailed) =>
          chatting' = chatting /\ connection' = connection /\ ws' = ws
     /\ (last'.type = "AUDIO" /\ last'.avatarFailedWas) => last'.routed = "local"]_vars

\* ------------------------------------------------------- malformed audio payload
\* C24 as stated: an AUDIO packet whose payload does not decode is dropped: its chunk
\* is neither handed to the avatar bridge nor put on the local playback queue.
C24_MalformedChunkDropped ==
  (last.type = "AUDIO" /\ last.payloadWas = Garbled) =>
    /\ last.routed = "none"
    /\ ~InQueue(queue, last.chunk)
    /\ \A f \in forwards : f.chunk # last.chunk

\* ------------------------------------------------------- avatar token exchange
\* C25 as stated: when the token exchange settles without a token, the caller gets
\* an error from it (openConnection's catch runs and the start is over), and no
\* avatar session object is created.
C25_NoSessionWithoutToken ==
  [][(ocPc = "token" /\ ocPc' # "token" /\ heygenSessionToken' = 0) =>
       /\ tokenFailed' /\ ocPc' = "idle"
       /\ heygenSession' = NoSession]_vars

\* ------------------------------------------------------- PCM sample conversion
Abs(x) == IF x < 0 THEN -x ELSE x

C27_UnloadTearsDown ==
  [][last'.type = "UNLOAD" =>
       /\ last'.status = 200 =>
            /\ connections'[last'.session].unloaded
            /\ ~connections'[last'.session].ws
       /\ last'.status = 404 =>
            /\ ~connections[last'.session].loaded
            /\ connections' = connections]_vars

\* ------------------------------------------------------------- stale readiness
\* the adapter's listener has handled the DISCONNECTED state change of the session
\* it holds
ObservedDisconnected == heygenSession # NoSession /\ bridge[heygenSession] = DeadBridge

\* C29 as stated: an AUDIO packet handled after the adapter has observed the
\* DISCONNECTED state change of its session is not handed to the bridge, also when it
\* is handled before the next render refreshes stateRef.
C29_NoForwardAfterDisconnect ==
  [][(last'.type = "AUDIO" /\ ObservedDisconnected) => last'.routed # "bridge"]_vars

\* ------------------------------------------------------ disconnected is final
\* C30: when the adapter observes the DISCONNECTED state change of its session,
\* connected and stream-ready become false and the session's listeners are
\* detached; no later event of that session (connected, stream-ready, error, a
\* repeated disconnected) changes the adapter state.
C30_DisconnectedAbsorbing ==
  [][/\ \A s \in SessionIds :
          (/\ heygenSession = s
           /\ bridge[s].state \in {"connecting", "connected", "ready"}
           /\ bridge'[s].state = "disconnected")
            => /\ ~isHeygenConnected' /\ ~isHeygenStreamReady'
               /\ ~bridge'[s].listeners
     /\ last'.type = "LATE_EVENT" =>
          /\ stateVars' = stateVars
          /\ bridge' = bridge
          /\ ~isHeygenConnected' /\ ~isHeygenStreamReady']_vars

\* the adapter's session has disconnected and then emitted a CONNECTED state
\* change: the adapter still holds the session and stays disconnected
C30_Witness ==
  /\ last.type = "LATE_EVENT" /\ last.event = "connected"
  /\ heygenSession = last.sessionWas
  /\ ObservedDisconnected
  /\ ~isHeygenConnected /\ ~isHeygenStreamReady

\* ------------------------------------------------------- video attachment
\* C31: attach(videoElement) is called on the avatar session only in a commit that
\* renders stream-ready as true; an element mounted before readiness is not attached
\* at that point; an element rendered with stream-ready true and a session is
\* attached, and attach is called exactly once for it.
C31_AttachOnceWhenReady ==
  [][/\ video'.attaches > video.attaches =>
          isHeygenStreamReady' /\ heygenSession' # NoSession
     /\ (~video.el /\ video'.el /\ ~isHeygenStreamReady') => video'.attaches = 0
     /\ (video'.el /\ video'.ready /\ video'.session # NoSession) =>
          video'.attached /\ video'.attaches = 1
     /\ video'.attaches <= 1]_vars

\* ------------------------------------------------------- graph credentials
\* C32: the graph handle a getter returns for a session was constructed with that
\* session's own effective Inworld key (the key of its load request, else the
\* server's), also when another session with the same voice id made the getter
\* create the graph.
C32_GraphHasOwnCredentials ==
  (last.type \in {"TEXT_GRAPH", "AUDIO_GRAPH"} /\ last.outcome = "cached") =>
     last.graphKey = last.inworldKeyWas

\* ----------------------------------------------------------- rejected load
\* C33: when the load request of openConnection is rejected, the error is shown,
\* chatting becomes false and openConnection returns: it creates no WebSocket and no
\* avatar session, and it is not left at a point from which it could still do so for
\* the session id it asked for.
C33_RejectedLoadOpensNothing ==
  [][last'.type = "LOAD_REJECTED" =>
       /\ last'.toast
       /\ ~chatting'
       /\ ocPc' = "idle"
       /\ connection' = connection /\ ws' = ws
       /\ heygenSession' = heygenSession /\ bridge' = bridge
       /\ heygenSessionToken' = heygenSessionToken]_vars

\* the first load was rejected: no transport and no avatar session exist
C33_Witness ==
  /\ last.type = "LOAD_REJECTED"
  /\ ~chatting /\ ocPc = "idle"
  /\ connection = NoConnection /\ heygenSession = NoSession
  /\ \A c \in ConnIds : ws[c] = DeadSocket

\* ------------------------------------------------- cancellation and forwards
\* C34: once a CANCEL_RESPONSE packet has been handled, a chunk whose AUDIO handler
\* was suspended on its forward to the bridge at that moment is not added to the
\* local playback queue.
C34_NoPlaybackOfCancelledChunk ==
  [][last.type = "CANCEL_RESPONSE" =>
       \A f \in forwards : ~InQueue(queue', f.chunk)]_vars

\* ------------------------------------------------ stop against a new start
\* C35: stopChatting unloads the session it stops. While chatting is true in a step
\* of a suspended stopChatting, a conversation was started after the stop and the
\* module-level key is its session id: the unload request (sent with the key read
\* when stopChatting reaches it) must not be sent then, key must not be cleared
\* then, and the stop must clear no avatar session but the one it read at entry.
C35_StopUnloadsItsOwnSession ==
  [][/\ (stPc # "unload" /\ stPc' = "unload") => ~(chatting' /\ key' # 0)
     /\ (stPc = "unload" /\ stPc' = "idle" /\ chatting) => key' = key
     /\ (stPc \in {"avatarStop", "revoke"} /\ heygenSession # NoSession
           /\ heygenSession' = NoSession) => heygenSession = stLocals.heygenSession]_vars

\* ------------------------------------------------- capture after the chat view
\* C36: when the chat view is left while capture is active (Chat is unmounted by
\* the commit of stopChatting, or by the render that follows an error / close
\* listener of the connection, and its committed isRecording was true), capture is
\* stopped: no send timer is left running and no microphone stream is left live.
C36_NoCaptureAfterChat ==
  [][(chatRef.mounted /\ chatRef.isRecording /\ ~chatRef'.mounted) =>
       \A i \in StartIds : ~rec'[i].timer /\ ~rec'[i].stream]_vars

\* -------------------------------------------- avatar session after the chat
\* C37: no avatar session outlives its conversation: in no state in which the client
\* has left chat mode and is at rest (no openConnection or stopChatting call and no
\* forward suspended, every state update rendered) is there a started avatar session
\* (connecting, connected or stream-ready) or a token that was not given up.
C37_NoAvatarAfterChat ==
  (/\ ~chatting /\ ocPc = "idle" /\ stPc = "idle" /\ forwards = {}
   /\ stateRef = Snapshot /\ chatRef = ChatSnapshot)
    => /\ \A s \in SessionIds : bridge[s].state \notin {"connecting", "connected", "ready"}
       /\ heygenSessionToken = 0

\* ------------------------------------------------- latency record: user text
\* C38: once a final TEXT packet of the user for a turn has been handled (and not
\* filtered out as empty), the latency record of that turn carries the normalized
\* final text as its userText, also when USER_SPEECH_COMPLETE created the record
\* with the placeholder text.
C38_LatencyCarriesUserText ==
  (last.type = "TEXT" /\ ~last.isAgent /\ last.final /\ last.kept) =>
    \A i \in 1..Len(latencyData) :
      latencyData[i].interactionId = last.interactionId =>
        latencyData[i].userText = formatAudioTranscript(Trim(last.text), TRUE)

\* ------------------------------------------------ latency record: one per turn
\* C39: latencyData never holds two records with the same interactionId; a
\* NEW_INTERACTION or USER_SPEECH_COMPLETE packet for a turn that has a record adds
\* none, and NEW_INTERACTION leaves the existing record as it is.
C39_OneLatencyRecordPerTurn ==
  [][/\ \A i, j \in 1..Len(latencyData') :
          latencyData'[i].interactionId = latencyData'[j].interactionId => i = j
     /\ (last'.type = "NEW_INTERACTION"
           /\ HasLatency(latencyData, last'.interactionId)) => latencyData' = latencyData
     /\ (last'.type = "USER_SPEECH_COMPLETE"
           /\ HasLatency(latencyData, last'.interactionId)) =>
          Len(latencyData') = Len(latencyData)]_vars

\* NEW_INTERACTION was handled for a turn whose record USER_SPEECH_COMPLETE had
\* created: the one record still has the placeholder text and the speech timestamp
C39_Witness ==
  /\ last.type = "NEW_INTERACTION"
  /\ Len(latencyData) = 1
  /\ latencyData[1].interactionId = last.interactionId
  /\ latencyData[1].userText = VoiceInput
  /\ latencyData[1].speechCompleteTimestamp # 0
  /\ latencyData[1].userTextTimestamp = 0

====
